---- MODULE Spec2Model ----
(***************************************************************************)
(* A model of the chess core of matthiasgreen/chester: squares, bitboards, *)
(* precomputed move maps, the board State, the Zobrist hasher, the packed  *)
(* Move and the ply-stacked MoveList, pseudo-legal move generation, and    *)
(* Position::make / Position::unmake.                                      *)
(*                                                                         *)
(* Encodings.  A BitBoard (u64) is the set of the squares whose bit is     *)
(* set; |, & and ! are union, intersection and complement in 0..63.  A     *)
(* Zobrist word is one draw of a seeded ChaCha20 stream; the 64-bit hash   *)
(* is the XOR of the words consumed, which is modelled as the set of the   *)
(* words consumed an odd number of times (XOR = symmetric difference), the *)
(* words being taken as linearly independent.  Option<Square>::None is -1  *)
(* and Option<PieceType>::None / Option<CastleSide>::None is "None".       *)
(***************************************************************************)
EXTENDS Integers, Sequences, FiniteSets, TLC

None == -1
NoPiece == "None"
NoSide == "None"

(***************************************************************************)
(* color.rs                                                                *)
(***************************************************************************)
Not(color) == IF color = "White" THEN "Black" ELSE "White"

(***************************************************************************)
(* square.rs: Square                                                       *)
(***************************************************************************)
Squares == 0..63

SquareSeq == [i \in 1..64 |-> i - 1]

SquareSeqDesc == [i \in 1..64 |-> 64 - i]

rank(square) == square \div 8

file(square) == square % 8

new_unchecked(r, f) == r * 8 + f

Square_new(r, f) == IF r \in 0..7 /\ f \in 0..7 THEN new_unchecked(r, f) ELSE None

mirror(square) == new_unchecked(7 - rank(square), file(square))

(***************************************************************************)
(* square.rs: SquareFinder(color)                                          *)
(***************************************************************************)
adapt_to_color(color, offset) == IF color = "White" THEN offset ELSE mirror(offset)

source(color, piece) ==
    CASE piece = "Queen" -> adapt_to_color(color, Square_new(0, 3))
      [] piece = "King" -> adapt_to_color(color, Square_new(0, 4))
      [] OTHER -> None

castle_king_target(color, side) ==
    IF side = "King" THEN adapt_to_color(color, Square_new(0, 6))
    ELSE adapt_to_color(color, Square_new(0, 2))

castle_rook_target(color, side) ==
    IF side = "King" THEN adapt_to_color(color, Square_new(0, 5))
    ELSE adapt_to_color(color, Square_new(0, 3))

castle_rook_source(color, side) ==
    IF side = "King" THEN adapt_to_color(color, Square_new(0, 7))
    ELSE adapt_to_color(color, Square_new(0, 0))

castle_check(color, side) ==
    IF side = "King"
    THEN << adapt_to_color(color, Square_new(0, 4)),
            adapt_to_color(color, Square_new(0, 5)),
            adapt_to_color(color, Square_new(0, 6)) >>
    ELSE << adapt_to_color(color, Square_new(0, 4)),
            adapt_to_color(color, Square_new(0, 3)),
            adapt_to_color(color, Square_new(0, 2)) >>

\* a castle_empty that forgets the b file on the queen side
castle_empty_without_b(color, side) ==
    IF side = "King"
    THEN {adapt_to_color(color, Square_new(0, 5)), adapt_to_color(color, Square_new(0, 6))}
    ELSE {adapt_to_color(color, Square_new(0, 3)), adapt_to_color(color, Square_new(0, 2))}

castle_empty(color, side) ==
    LET squares == IF side = "King"
                   THEN << adapt_to_color(color, Square_new(0, 5)),
                           adapt_to_color(color, Square_new(0, 5)),
                           adapt_to_color(color, Square_new(0, 6)) >>
                   ELSE << adapt_to_color(color, Square_new(0, 3)),
                           adapt_to_color(color, Square_new(0, 2)),
                           adapt_to_color(color, Square_new(0, 1)) >>
    IN {} \cup {squares[1]} \cup {squares[2]} \cup {squares[3]}

en_passant_capture(color, f) == adapt_to_color(color, Square_new(4, f))

en_passant_marker_on_target(color, f) == adapt_to_color(color, Square_new(3, f))

en_passant_marker(color, f) == adapt_to_color(color, Square_new(2, f))

(***************************************************************************)
(* state/bitboard.rs: BitBoard                                             *)
(***************************************************************************)
EMPTY == {}

set(b, square) == b \cup {square}

unset(b, square) == b \ {square}

BitBoard_move(b, from, to) == set(unset(b, from), to)

get_first_square(b) ==
    IF b = EMPTY THEN None ELSE CHOOSE x \in b : \A y \in b : x <= y

get_last_square(b) ==
    IF b = EMPTY THEN None ELSE CHOOSE x \in b : \A y \in b : x >= y

\* while let Some(s) = b.pop_first_square(): the squares of b, lowest first
pop_first_squares(b) == SelectSeq(SquareSeq, LAMBDA s : s \in b)

\* while let Some(s) = b.pop_last_square(): the squares of b, highest first
pop_last_squares(b) == SelectSeq(SquareSeqDesc, LAMBDA s : s \in b)

\* b << 8 and b >> 8 on a u64: bits shifted out are dropped
shl8(b) == {s + 8 : s \in {x \in b : x + 8 <= 63}}

shr8(b) == {s - 8 : s \in {x \in b : x - 8 >= 0}}

(***************************************************************************)
(* state/chess_board.rs                                                    *)
(***************************************************************************)
PieceType_as_array == <<"Pawn", "Knight", "Bishop", "Rook", "Queen", "King">>

PieceTypes == {"Pawn", "Knight", "Bishop", "Rook", "Queen", "King"}

ChessBoardSide_EMPTY == [p \in PieceTypes |-> EMPTY]

ChessBoard_EMPTY == [c \in {"White", "Black"} |-> ChessBoardSide_EMPTY]

union(side) ==
    side["Pawn"] \cup side["Knight"] \cup side["Bishop"] \cup side["Rook"]
        \cup side["Queen"] \cup side["King"]

(***************************************************************************)
(* move/move_maps.rs                                                       *)
(***************************************************************************)
with_offset(square, dr, df) ==
    LET r == rank(square) + dr
        f == file(square) + df
    IN IF r >= 0 /\ f >= 0 THEN Square_new(r, f) ELSE None

permute_signs(r, f) == { <<-r, -f>>, <<-r, f>>, <<r, -f>>, <<r, f>> }

Offset_directions(value) == { <<value, 0>>, <<-value, 0>>, <<0, value>>, <<0, -value>> }

from_offsets(offsets) ==
    [src \in Squares |-> {with_offset(src, o[1], o[2]) : o \in offsets} \ {None}]

RECURSIVE ray_from(_, _, _)
ray_from(square, dr, df) ==
    LET target == with_offset(square, dr, df)
    IN IF target = None THEN {} ELSE {target} \cup ray_from(target, dr, df)

from_direction(dr, df) == [src \in Squares |-> ray_from(src, dr, df)]

MoveMap_double_pawn(color) ==
    LET from_rank == IF color = "White" THEN 1 ELSE 6
        to_rank == IF color = "White" THEN 3 ELSE 4
    IN [src \in Squares |->
           IF rank(src) = from_rank THEN {Square_new(to_rank, file(src))} ELSE {}]

MOVE_MAPS ==
    [ knight |-> from_offsets(permute_signs(2, 1) \cup permute_signs(1, 2)),
      king |-> from_offsets(permute_signs(1, 1) \cup Offset_directions(1)),
      ne_diagonal |-> from_direction(1, 1),
      nw_diagonal |-> from_direction(1, -1),
      sw_diagonal |-> from_direction(-1, -1),
      se_diagonal |-> from_direction(-1, 1),
      e_rank |-> from_direction(0, 1),
      w_rank |-> from_direction(0, -1),
      n_file |-> from_direction(1, 0),
      s_file |-> from_direction(-1, 0),
      white_pawn_passive |-> from_offsets({<<1, 0>>}),
      black_pawn_passive |-> from_offsets({<<-1, 0>>}),
      white_pawn_double |-> MoveMap_double_pawn("White"),
      black_pawn_double |-> MoveMap_double_pawn("Black"),
      white_pawn_attack |-> from_offsets({<<1, -1>>, <<1, 1>>}),
      black_pawn_attack |-> from_offsets({<<-1, -1>>, <<-1, 1>>}) ]

diagonals ==
    << <<MOVE_MAPS.ne_diagonal, "Increasing">>,
       <<MOVE_MAPS.nw_diagonal, "Increasing">>,
       <<MOVE_MAPS.sw_diagonal, "Decreasing">>,
       <<MOVE_MAPS.se_diagonal, "Decreasing">> >>

directions ==
    << <<MOVE_MAPS.e_rank, "Increasing">>,
       <<MOVE_MAPS.n_file, "Increasing">>,
       <<MOVE_MAPS.w_rank, "Decreasing">>,
       <<MOVE_MAPS.s_file, "Decreasing">> >>

passive_pawn(color) ==
    IF color = "White" THEN MOVE_MAPS.white_pawn_passive ELSE MOVE_MAPS.black_pawn_passive

double_pawn(color) ==
    IF color = "White" THEN MOVE_MAPS.white_pawn_double ELSE MOVE_MAPS.black_pawn_double

attack_pawn(color) ==
    IF color = "White" THEN MOVE_MAPS.white_pawn_attack ELSE MOVE_MAPS.black_pawn_attack

(***************************************************************************)
(* state/flags.rs: StateFlags                                              *)
(***************************************************************************)
castle_right(flags, color, side) ==
    CASE color = "White" /\ side = "King" -> flags.white_king_castle_right
      [] color = "White" /\ side = "Queen" -> flags.white_queen_castle_right
      [] color = "Black" /\ side = "King" -> flags.black_king_castle_right
      [] color = "Black" /\ side = "Queen" -> flags.black_queen_castle_right

StateFlags_set_castle_right(flags, color, side, value) ==
    CASE color = "White" /\ side = "King" -> [flags EXCEPT !.white_king_castle_right = value]
      [] color = "White" /\ side = "Queen" -> [flags EXCEPT !.white_queen_castle_right = value]
      [] color = "Black" /\ side = "King" -> [flags EXCEPT !.black_king_castle_right = value]
      [] color = "Black" /\ side = "Queen" -> [flags EXCEPT !.black_queen_castle_right = value]

StateFlags_toggle_color(flags) == [flags EXCEPT !.active_color = Not(flags.active_color)]

(***************************************************************************)
(* state/mod.rs: State                                                     *)
(***************************************************************************)
inactive_boards(state) == state.boards[Not(state.flags.active_color)]

active_boards(state) == state.boards[state.flags.active_color]

(***************************************************************************)
(* hash/zobrist.rs: ZobristHasher.  ZOBRIST_NUMBERS names the words.       *)
(***************************************************************************)
Xor(h, word) == (h \ {word}) \cup ({word} \ h)

ZOBRIST_board(color, piece, square) == <<"board", color, piece, square>>

ZOBRIST_active_color == <<"active_color">>

get_castle(color, side) == <<"castle", color, side>>

ZOBRIST_en_passant_file(f) == <<"en_passant_file", f>>

consume_piece(hasher, color, piece, square) ==
    [hash |-> Xor(hasher.hash, ZOBRIST_board(color, piece, square))]

consume_castle(hasher, color, side) ==
    [hash |-> Xor(hasher.hash, get_castle(color, side))]

consume_color(hasher) == [hash |-> Xor(hasher.hash, ZOBRIST_active_color)]

consume_en_passant(hasher, square) ==
    [hash |-> Xor(hasher.hash, ZOBRIST_en_passant_file(file(square)))]

Hasher_init(state) ==
    [hash |->
        { ZOBRIST_board(c, p, s) : <<c, p, s>> \in
              { t \in {"White", "Black"} \X PieceTypes \X Squares :
                    t[3] \in state.boards[t[1]][t[2]] } }
        \cup (IF Not(state.flags.active_color) = "White" THEN {ZOBRIST_active_color} ELSE {})
        \cup { get_castle(cs[1], cs[2]) : cs \in
                  { x \in {"White", "Black"} \X {"King", "Queen"} :
                        castle_right(state.flags, x[1], x[2]) } }
        \cup (IF get_first_square(state.en_passant) # None
              THEN {ZOBRIST_en_passant_file(file(get_first_square(state.en_passant)))}
              ELSE {}) ]

(***************************************************************************)
(* hash/mod.rs: HashedState = [state, hasher]                              *)
(***************************************************************************)
HashedState_new(state) == [state |-> state, hasher |-> Hasher_init(state)]

get_hash(hs) == hs.hasher.hash

remove_piece(hs, square, piece, color) ==
    [ state |-> [hs.state EXCEPT !.boards[color][piece] = unset(@, square)],
      hasher |-> consume_piece(hs.hasher, color, piece, square) ]

add_piece(hs, square, piece, color) ==
    [ state |-> [hs.state EXCEPT !.boards[color][piece] = set(@, square)],
      hasher |-> consume_piece(hs.hasher, color, piece, square) ]

move_piece(hs, from, to, piece, color) ==
    [ state |-> [hs.state EXCEPT !.boards[color][piece] = BitBoard_move(@, from, to)],
      hasher |-> consume_piece(consume_piece(hs.hasher, color, piece, from),
                               color, piece, to) ]

set_castle_right(hs, color, side, value) ==
    IF castle_right(hs.state.flags, color, side) # value
    THEN [ state |-> [hs.state EXCEPT
                         !.flags = StateFlags_set_castle_right(@, color, side, value)],
           hasher |-> consume_castle(hs.hasher, color, side) ]
    ELSE hs

toggle_color(hs) ==
    [ state |-> [hs.state EXCEPT !.flags = StateFlags_toggle_color(@)],
      hasher |-> consume_color(hs.hasher) ]

remove_en_passant(hs) ==
    LET square == get_first_square(hs.state.en_passant)
    IN IF square # None
       THEN [ state |-> [hs.state EXCEPT !.en_passant = unset(@, square)],
              hasher |-> consume_en_passant(hs.hasher, square) ]
       ELSE hs

add_en_passant(hs, square) ==
    [ state |-> [hs.state EXCEPT !.en_passant = set(@, square)],
      hasher |-> consume_en_passant(hs.hasher, square) ]

\* halfmove is a u8
increment_halfmove(hs) == [hs EXCEPT !.state.halfmove = (@ + 1) % 256]

decrement_halfmove(hs) == [hs EXCEPT !.state.halfmove = (@ - 1) % 256]

(***************************************************************************)
(* move/mod.rs: Move and MoveCode                                          *)
(***************************************************************************)
Move_new(from, to, code) == [from |-> from, to |-> to, code |-> code]

is_capture(code) ==
    code \in { "Capture", "EnPassant", "KnightPromotionCapture", "BishopPromotionCapture",
               "RookPromotionCapture", "QueenPromotionCapture" }

as_promotion(code) ==
    CASE code \in {"KnightPromotion", "KnightPromotionCapture"} -> "Knight"
      [] code \in {"BishopPromotion", "BishopPromotionCapture"} -> "Bishop"
      [] code \in {"RookPromotion", "RookPromotionCapture"} -> "Rook"
      [] code \in {"QueenPromotion", "QueenPromotionCapture"} -> "Queen"
      [] OTHER -> NoPiece

as_castle(code) ==
    CASE code = "KingCastle" -> "King"
      [] code = "QueenCastle" -> "Queen"
      [] OTHER -> NoSide

from_castle(side) == IF side = "King" THEN "KingCastle" ELSE "QueenCastle"

(***************************************************************************)
(* position.rs: Position = [state: HashedState, stack: Seq(IrreversibleInfo)] *)
(***************************************************************************)
Position_new(hs) == [state |-> hs, stack |-> <<>>]

from_state(state, captured_piece) ==
    [ halfmove |-> state.halfmove,
      en_passant |-> state.en_passant,
      flags |-> state.flags,
      captured_piece |-> captured_piece ]

\* PieceType::as_array().into_iter().find(|piece| !(side[*piece] & BitBoard::from(square)).is_empty())
find_piece(side, square) ==
    LET hits == SelectSeq(PieceType_as_array, LAMBDA piece : square \in side[piece])
    IN IF hits = <<>> THEN NoPiece ELSE Head(hits)

\* for side in CastleSide::as_array() { set_castle_right(color, side, false) }
remove_castle_rights(hs, color) ==
    set_castle_right(set_castle_right(hs, color, "King", FALSE), color, "Queen", FALSE)

castle(hs, side) ==
    LET color == hs.state.flags.active_color
        king_square == source(color, "King")
        king_target == castle_king_target(color, side)
        a == move_piece(hs, king_square, king_target, "King", color)
        rook_square == castle_rook_source(color, side)
        rook_target == castle_rook_target(color, side)
        b == move_piece(a, rook_square, rook_target, "Rook", color)
    IN remove_castle_rights(b, color)

uncastle(hs, side) ==
    LET color == hs.state.flags.active_color
        king_target == source(color, "King")
        king_square == castle_king_target(color, side)
        a == move_piece(hs, king_square, king_target, "King", color)
        rook_target == castle_rook_source(color, side)
        rook_square == castle_rook_target(color, side)
    IN move_piece(a, rook_square, rook_target, "Rook", color)

restore_castle_rights_skipped(hs, flags) == hs

restore_castle_rights(hs, flags) ==
    LET a == set_castle_right(hs, "White", "King", castle_right(flags, "White", "King"))
        b == set_castle_right(a, "White", "Queen", castle_right(flags, "White", "Queen"))
        c == set_castle_right(b, "Black", "King", castle_right(flags, "Black", "King"))
    IN set_castle_right(c, "Black", "Queen", castle_right(flags, "Black", "Queen"))

\* the rook branch of make: a rook leaving `from` clears the rights the code ties to it
rook_moved_rights(hs, color, from) ==
    LET a == IF from = castle_rook_target(color, "King")
             THEN set_castle_right(hs, color, "King", FALSE) ELSE hs
    IN IF from = castle_rook_target(color, "Queen")
       THEN set_castle_right(a, color, "Queen", FALSE) ELSE a

\* make panics (Option::unwrap on None) when no piece of the side to move is on m.from
make_panics(pos, m) == find_piece(active_boards(pos.state.state), m.from) = NoPiece

make(pos, m) ==
    LET st == pos.state.state
        color == st.flags.active_color
        moved_piece == find_piece(active_boards(st), m.from)
        captured_piece ==
            IF m.code = "EnPassant" THEN "Pawn"
            ELSE IF is_capture(m.code) THEN find_piece(inactive_boards(st), m.to)
            ELSE NoPiece
        stack1 == Append(pos.stack, from_state(st, captured_piece))
        h1 == remove_en_passant(pos.state)
        h2 == IF as_castle(m.code) # NoSide
              THEN castle(h1, as_castle(m.code))
              ELSE LET a == move_piece(h1, m.from, m.to, moved_piece, color)
                       b == IF moved_piece = "King" THEN remove_castle_rights(a, color) ELSE a
                       c == IF moved_piece = "Rook" THEN rook_moved_rights(b, color, m.from) ELSE b
                   IN IF m.code = "EnPassant"
                      THEN remove_piece(c, en_passant_capture(color, file(m.to)), "Pawn", Not(color))
                      ELSE IF captured_piece # NoPiece
                           THEN remove_piece(c, m.to, captured_piece, Not(color))
                           ELSE c
        h3 == IF m.code = "DoublePawnPush"
              THEN add_en_passant(h2, en_passant_marker(color, file(m.from)))
              ELSE h2
        h4 == IF as_promotion(m.code) # NoPiece
              THEN add_piece(remove_piece(h3, m.to, moved_piece, color),
                             m.to, as_promotion(m.code), color)
              ELSE h3
    IN [state |-> increment_halfmove(toggle_color(h4)), stack |-> stack1]

\* unmake panics when the stack is empty or no piece of the mover is on m.to
unmake_panics(pos, m) ==
    \/ pos.stack = <<>>
    \/ /\ as_promotion(m.code) = NoPiece
       /\ find_piece(inactive_boards(pos.state.state), m.to) = NoPiece

unmake(pos, m) ==
    LET h0 == toggle_color(pos.state)
        color == h0.state.flags.active_color
        info == pos.stack[Len(pos.stack)]
        stack1 == SubSeq(pos.stack, 1, Len(pos.stack) - 1)
        h1 == restore_castle_rights(h0, info.flags)
        h2 == remove_en_passant(h1)
        h3 == IF get_first_square(info.en_passant) # None
              THEN add_en_passant(h2, get_first_square(info.en_passant))
              ELSE h2
        moved_piece == IF as_promotion(m.code) # NoPiece THEN "Pawn"
                       ELSE find_piece(active_boards(h3.state), m.to)
        h4 == IF as_promotion(m.code) # NoPiece
              THEN add_piece(remove_piece(h3, m.to, as_promotion(m.code), color),
                             m.to, "Pawn", color)
              ELSE h3
        h5 == IF as_castle(m.code) # NoSide
              THEN uncastle(h4, as_castle(m.code))
              ELSE LET a == move_piece(h4, m.to, m.from, moved_piece, color)
                   IN IF m.code = "EnPassant"
                      THEN add_piece(a, en_passant_capture(color, file(m.to)), "Pawn", Not(color))
                      ELSE IF info.captured_piece # NoPiece
                           THEN add_piece(a, m.to, info.captured_piece, Not(color))
                           ELSE a
    IN [state |-> decrement_halfmove(h5), stack |-> stack1]

(***************************************************************************)
(* move/move_generator.rs.  A generator returns the moves it inserts into  *)
(* `out`, in insertion order.                                              *)
(***************************************************************************)
RECURSIVE flatten(_)
flatten(seqs) == IF seqs = <<>> THEN <<>> ELSE Head(seqs) \o flatten(Tail(seqs))

\* while let Some(to) = board.pop_..._square() && cond(to) { insert }: the loop
\* ends at the first square that fails cond
take_while(seq, cond(_)) ==
    SubSeq(seq, 1, Cardinality({i \in 1..Len(seq) : \A j \in 1..i : cond(seq[j])}))

moves_to(from, targets, code) == [i \in 1..Len(targets) |-> Move_new(from, targets[i], code)]

capture_in_increasing_direction(direction, targets, blocking) ==
    LET friendly_sb == get_first_square(direction \cap blocking)
        target_sb == get_first_square(direction \cap targets)
    IN \/ friendly_sb = None /\ target_sb # None
       \/ friendly_sb # None /\ target_sb # None /\ target_sb < friendly_sb

capture_in_decreasing_direction(direction, targets, blocking) ==
    LET friendly_sb == get_last_square(direction \cap blocking)
        target_sb == get_last_square(direction \cap targets)
    IN \/ friendly_sb = None /\ target_sb # None
       \/ friendly_sb # None /\ target_sb # None /\ target_sb > friendly_sb

capture_in_direction(direction, direction_type, targets, blocking) ==
    IF direction_type = "Increasing"
    THEN capture_in_increasing_direction(direction, targets, blocking)
    ELSE capture_in_decreasing_direction(direction, targets, blocking)

\* is_square_attacked with the pawn map of the attacking colour
is_square_attacked_by_own_pawn_map(state, square, attacking_color) ==
    LET attacking_pieces == state.boards[attacking_color]
        defending_pieces == state.boards[Not(attacking_color)]
        defending_occupation == union(defending_pieces)
        blocking_bishop_queen_rook ==
            defending_occupation \cup attacking_pieces["Pawn"]
                \cup attacking_pieces["Knight"] \cup attacking_pieces["King"]
        blocking_bishop_queen == blocking_bishop_queen_rook \cup attacking_pieces["Rook"]
        blocking_rook_queen == blocking_bishop_queen_rook \cup attacking_pieces["Bishop"]
        attacking_bishops_and_queens == attacking_pieces["Bishop"] \cup attacking_pieces["Queen"]
        attacking_rooks_and_queens == attacking_pieces["Rook"] \cup attacking_pieces["Queen"]
    IN \/ \E i \in 1..4 :
              capture_in_direction(diagonals[i][1][square], diagonals[i][2],
                                   attacking_bishops_and_queens, blocking_bishop_queen)
       \/ \E i \in 1..4 :
              capture_in_direction(directions[i][1][square], directions[i][2],
                                   attacking_rooks_and_queens, blocking_rook_queen)
       \/ (attacking_pieces["Pawn"] \cap attack_pawn(attacking_color)[square]) # EMPTY
       \/ (MOVE_MAPS.knight[square] \cap attacking_pieces["Knight"]) # EMPTY
       \/ (MOVE_MAPS.king[square] \cap attacking_pieces["King"]) # EMPTY

is_square_attacked(state, square, attacking_color) ==
    LET attacking_pieces == state.boards[attacking_color]
        defending_pieces == state.boards[Not(attacking_color)]
        defending_occupation == union(defending_pieces)
        blocking_bishop_queen_rook ==
            defending_occupation \cup attacking_pieces["Pawn"]
                \cup attacking_pieces["Knight"] \cup attacking_pieces["King"]
        blocking_bishop_queen == blocking_bishop_queen_rook \cup attacking_pieces["Rook"]
        blocking_rook_queen == blocking_bishop_queen_rook \cup attacking_pieces["Bishop"]
        attacking_bishops_and_queens == attacking_pieces["Bishop"] \cup attacking_pieces["Queen"]
        attacking_rooks_and_queens == attacking_pieces["Rook"] \cup attacking_pieces["Queen"]
    IN \/ \E i \in 1..4 :
              capture_in_direction(diagonals[i][1][square], diagonals[i][2],
                                   attacking_bishops_and_queens, blocking_bishop_queen)
       \/ \E i \in 1..4 :
              capture_in_direction(directions[i][1][square], directions[i][2],
                                   attacking_rooks_and_queens, blocking_rook_queen)
       \/ (attacking_pieces["Pawn"] \cap attack_pawn(Not(attacking_color))[square]) # EMPTY
       \/ (MOVE_MAPS.knight[square] \cap attacking_pieces["Knight"]) # EMPTY
       \/ (MOVE_MAPS.king[square] \cap attacking_pieces["King"]) # EMPTY

\* a was_move_legal that looks at the king of the side to move
was_move_legal_of_active(state) ==
    ~is_square_attacked(state, get_first_square(active_boards(state)["King"]),
                        Not(state.flags.active_color))

was_move_legal(state) ==
    ~is_square_attacked(state, get_first_square(inactive_boards(state)["King"]),
                        state.flags.active_color)

is_check(state) ==
    ~is_square_attacked(state, get_first_square(active_boards(state)["King"]),
                        Not(state.flags.active_color))

\* the moves of one knight or of the king: captures first, then quiet moves
step_moves(state, from, map) ==
    LET friendly_occupation == union(active_boards(state))
        enemy_occupation == union(inactive_boards(state))
        to_board == map[from] \ friendly_occupation
        to_capture == to_board \cap enemy_occupation
        to_quiet == to_board \ enemy_occupation
    IN moves_to(from, pop_first_squares(to_capture), "Capture")
           \o moves_to(from, pop_first_squares(to_quiet), "QuietMove")

knight_moves(state) ==
    LET knights == pop_first_squares(active_boards(state)["Knight"])
    IN flatten([i \in 1..Len(knights) |-> step_moves(state, knights[i], MOVE_MAPS.knight)])

\* king_moves panics (unwrap on None) when the side to move has no king
king_moves(state) ==
    step_moves(state, get_first_square(active_boards(state)["King"]), MOVE_MAPS.king)

\* direction_moves whose quiet moves run up to and onto the blocking square
direction_moves_onto_blocker(state, from, direction, direction_type) ==
    LET friendly_occupation == union(active_boards(state))
        enemy_occupation == union(inactive_boards(state))
        get_square(b) == IF direction_type = "Increasing"
                         THEN get_first_square(b) ELSE get_last_square(b)
        friendly_block == get_square(friendly_occupation \cap direction)
        enemy_sb == get_square(enemy_occupation \cap direction)
        enemy_nearer ==
            \/ direction_type = "Increasing" /\ enemy_sb < friendly_block
            \/ direction_type = "Decreasing" /\ enemy_sb > friendly_block
        pair == CASE friendly_block = None /\ enemy_sb = None -> <<None, None>>
                  [] friendly_block = None /\ enemy_sb # None -> <<enemy_sb, enemy_sb>>
                  [] friendly_block # None /\ enemy_sb = None -> <<friendly_block, None>>
                  [] OTHER -> IF enemy_nearer THEN <<enemy_sb, enemy_sb>>
                              ELSE <<friendly_block, None>>
        blocking_sb == pair[1]
        capture_square == pair[2]
        before_block(to) == IF direction_type = "Increasing"
                            THEN blocking_sb = None \/ to <= blocking_sb
                            ELSE blocking_sb = None \/ to >= blocking_sb
        to_board == IF direction_type = "Increasing"
                    THEN pop_first_squares(direction) ELSE pop_last_squares(direction)
    IN (IF capture_square # None THEN <<Move_new(from, capture_square, "Capture")>> ELSE <<>>)
           \o moves_to(from, take_while(to_board, before_block), "QuietMove")

direction_moves(state, from, direction, direction_type) ==
    LET friendly_occupation == union(active_boards(state))
        enemy_occupation == union(inactive_boards(state))
        get_square(b) == IF direction_type = "Increasing"
                         THEN get_first_square(b) ELSE get_last_square(b)
        friendly_block == get_square(friendly_occupation \cap direction)
        enemy_sb == get_square(enemy_occupation \cap direction)
        enemy_nearer ==
            \/ direction_type = "Increasing" /\ enemy_sb < friendly_block
            \/ direction_type = "Decreasing" /\ enemy_sb > friendly_block
        \* (blocking_sb, capture_square)
        pair == CASE friendly_block = None /\ enemy_sb = None -> <<None, None>>
                  [] friendly_block = None /\ enemy_sb # None -> <<enemy_sb, enemy_sb>>
                  [] friendly_block # None /\ enemy_sb = None -> <<friendly_block, None>>
                  [] OTHER -> IF enemy_nearer THEN <<enemy_sb, enemy_sb>>
                              ELSE <<friendly_block, None>>
        blocking_sb == pair[1]
        capture_square == pair[2]
        before_block(to) == IF direction_type = "Increasing"
                            THEN blocking_sb = None \/ to < blocking_sb
                            ELSE blocking_sb = None \/ to > blocking_sb
        to_board == IF direction_type = "Increasing"
                    THEN pop_first_squares(direction) ELSE pop_last_squares(direction)
    IN (IF capture_square # None THEN <<Move_new(from, capture_square, "Capture")>> ELSE <<>>)
           \o moves_to(from, take_while(to_board, before_block), "QuietMove")

slider_moves(state, piece, maps) ==
    LET board == pop_first_squares(active_boards(state)[piece])
    IN flatten([i \in 1..Len(board) |->
           flatten([j \in 1..4 |->
               direction_moves(state, board[i], maps[j][1][board[i]], maps[j][2])])])

diagonal_moves(state, piece) == slider_moves(state, piece, diagonals)

rank_file_moves_on_diagonals(state, piece) == slider_moves(state, piece, diagonals)

rank_file_moves(state, piece) == slider_moves(state, piece, directions)

\* the moves of the pawn on `from`
pawn_moves_from(state, from) ==
    LET color == state.flags.active_color
        friendly_occupation == union(active_boards(state))
        enemy_occupation == union(inactive_boards(state))
        unoccupied == Squares \ (friendly_occupation \cup enemy_occupation)
        will_promote == IF color = "White" THEN rank(from) = 6 ELSE rank(from) = 1
        passive_board == passive_pawn(color)[from] \cap unoccupied
        double_board == (double_pawn(color)[from] \cap unoccupied)
                            \cap (IF color = "White" THEN shl8(passive_board)
                                  ELSE shr8(passive_board))
        attack_board == attack_pawn(color)[from] \cap (enemy_occupation \cup state.en_passant)
        attacks == pop_first_squares(attack_board)
        promotions(to, suffix) ==
            << Move_new(from, to, "QueenPromotion" \o suffix),
               Move_new(from, to, "RookPromotion" \o suffix),
               Move_new(from, to, "BishopPromotion" \o suffix),
               Move_new(from, to, "KnightPromotion" \o suffix) >>
        attack_moves(to) ==
            IF will_promote THEN promotions(to, "Capture")
            ELSE IF get_first_square(state.en_passant) = to
                 THEN <<Move_new(from, to, "EnPassant")>>
                 ELSE <<Move_new(from, to, "Capture")>>
    IN (IF passive_board # EMPTY
        THEN IF will_promote THEN promotions(get_first_square(passive_board), "")
             ELSE <<Move_new(from, get_first_square(passive_board), "QuietMove")>>
        ELSE <<>>)
       \o (IF double_board # EMPTY
           THEN <<Move_new(from, get_first_square(double_board), "DoublePawnPush")>>
           ELSE <<>>)
       \o flatten([i \in 1..Len(attacks) |-> attack_moves(attacks[i])])

pawn_moves(state) ==
    LET pawns == pop_first_squares(active_boards(state)["Pawn"])
    IN flatten([i \in 1..Len(pawns) |-> pawn_moves_from(state, pawns[i])])

castle_allowed(state, color, side) ==
    LET occupation == union(active_boards(state)) \cup union(inactive_boards(state))
    IN /\ castle_right(state.flags, color, side)
       /\ (occupation \cap castle_empty(color, side)) = EMPTY
       /\ \A i \in 1..3 : ~is_square_attacked(state, castle_check(color, side)[i], Not(color))

\* a generator that never castles
castle_moves_none(state) == <<>>

castle_moves(state) ==
    LET color == state.flags.active_color
        one(side) == IF castle_allowed(state, color, side)
                     THEN <<Move_new(source(color, "King"), castle_king_target(color, side),
                                     from_castle(side))>>
                     ELSE <<>>
    IN one("King") \o one("Queen")

pseudo_legal_moves(state) ==
    knight_moves(state) \o king_moves(state)
        \o diagonal_moves(state, "Bishop") \o diagonal_moves(state, "Queen")
        \o rank_file_moves(state, "Rook") \o rank_file_moves(state, "Queen")
        \o pawn_moves(state) \o castle_moves(state)

(***************************************************************************)
(* FEN parsing.  A string is the sequence of its characters.               *)
(***************************************************************************)
DigitValue ==
    [c \in {"0", "1", "2", "3", "4", "5", "6", "7", "8", "9"} |->
        CASE c = "0" -> 0 [] c = "1" -> 1 [] c = "2" -> 2 [] c = "3" -> 3 [] c = "4" -> 4
          [] c = "5" -> 5 [] c = "6" -> 6 [] c = "7" -> 7 [] c = "8" -> 8 [] c = "9" -> 9]

FileValue ==
    [c \in {"a", "b", "c", "d", "e", "f", "g", "h"} |->
        CASE c = "a" -> 0 [] c = "b" -> 1 [] c = "c" -> 2 [] c = "d" -> 3
          [] c = "e" -> 4 [] c = "f" -> 5 [] c = "g" -> 6 [] c = "h" -> 7]

\* c.to_ascii_lowercase() of a piece letter, as the PieceType it selects
PieceOfLetter ==
    [c \in {"p", "n", "b", "r", "q", "k", "P", "N", "B", "R", "Q", "K"} |->
        CASE c \in {"p", "P"} -> "Pawn" [] c \in {"n", "N"} -> "Knight"
          [] c \in {"b", "B"} -> "Bishop" [] c \in {"r", "R"} -> "Rook"
          [] c \in {"q", "Q"} -> "Queen" [] c \in {"k", "K"} -> "King"]

is_uppercase(c) == c \in {"P", "N", "B", "R", "Q", "K"}

\* str.split(sep): the pieces between separators, empty pieces kept
RECURSIVE split(_, _)
split(str, sep) ==
    LET cut == {i \in 1..Len(str) : str[i] = sep}
    IN IF cut = {} THEN <<str>>
       ELSE LET i == CHOOSE x \in cut : \A y \in cut : x <= y
            IN <<SubSeq(str, 1, i - 1)>> \o split(SubSeq(str, i + 1, Len(str)), sep)

split_whitespace(str) == SelectSeq(split(str, " "), LAMBDA piece : piece # <<>>)

rev(seq) == [i \in 1..Len(seq) |-> seq[Len(seq) + 1 - i]]

\* the inner loop of ChessBoard::from_fen over the characters of one rank
RECURSIVE ChessBoard_from_fen_line(_, _, _, _)
ChessBoard_from_fen_line(boards, line, r, f) ==
    IF line = <<>> THEN boards
    ELSE LET c == Head(line)
         IN IF c \in DOMAIN DigitValue
            THEN ChessBoard_from_fen_line(boards, Tail(line), r, f + DigitValue[c])
            ELSE LET color == IF is_uppercase(c) THEN "White" ELSE "Black"
                 IN ChessBoard_from_fen_line(
                        [boards EXCEPT ![color][PieceOfLetter[c]] = set(@, new_unchecked(r, f))],
                        Tail(line), r, f + 1)

RECURSIVE ChessBoard_from_fen_lines(_, _, _)
ChessBoard_from_fen_lines(boards, lines, r) ==
    IF lines = <<>> THEN boards
    ELSE ChessBoard_from_fen_lines(ChessBoard_from_fen_line(boards, Head(lines), r, 0),
                                   Tail(lines), r + 1)

ChessBoard_from_fen(board) ==
    ChessBoard_from_fen_lines(ChessBoard_EMPTY, rev(split(board, "/")), 0)

StateFlags_from_fen(active_color, castling_rights) ==
    LET contains(c) == \E i \in 1..Len(castling_rights) : castling_rights[i] = c
    IN [ active_color |-> IF active_color = "w" THEN "White" ELSE "Black",
         white_king_castle_right |-> contains("K"),
         white_queen_castle_right |-> contains("Q"),
         black_king_castle_right |-> contains("k"),
         black_queen_castle_right |-> contains("q") ]

\* Square::try_from(&str): [file @ 'a'..='h', rank @ '0'..'8'] with '8' excluded;
\* None is the Err result.  The rank digit '0' makes `rank - ZERO - 1` underflow.
Underflow == -2

Square_try_from(str) ==
    IF /\ Len(str) = 2
       /\ str[1] \in DOMAIN FileValue
       /\ str[2] \in {"0", "1", "2", "3", "4", "5", "6", "7"}
    THEN IF DigitValue[str[2]] - 1 < 0 THEN Underflow
         ELSE new_unchecked(DigitValue[str[2]] - 1, FileValue[str[1]])
    ELSE None

\* str.parse::<u8>() of a string of decimal digits
RECURSIVE parse_u8(_, _)
parse_u8(str, acc) ==
    IF str = <<>> THEN acc ELSE parse_u8(Tail(str), acc * 10 + DigitValue[Head(str)])

State_from_fen(fen) ==
    LET fields == split_whitespace(fen)
        halfmove == IF Len(fields) >= 5 THEN fields[5] ELSE <<"0">>
    IN [ boards |-> ChessBoard_from_fen(fields[1]),
         en_passant |-> IF fields[4] = <<"-">> THEN EMPTY
                        ELSE {Square_try_from(fields[4])},
         flags |-> StateFlags_from_fen(fields[2][1], fields[3]),
         halfmove |-> parse_u8(halfmove, 0) ]

HashedState_from_fen(fen) == HashedState_new(State_from_fen(fen))

Position_from_fen(fen) == Position_new(HashedState_from_fen(fen))

(***************************************************************************)
(* state/mod.rs, state/chess_board.rs, state/flags.rs, square.rs: to_fen   *)
(***************************************************************************)
\* char::from(PieceType)
LetterOfPiece ==
    [p \in PieceTypes |->
        CASE p = "Pawn" -> "P" [] p = "Knight" -> "N" [] p = "Bishop" -> "B"
          [] p = "Rook" -> "R" [] p = "Queen" -> "Q" [] p = "King" -> "K"]

to_ascii_lowercase(c) ==
    CASE c = "P" -> "p" [] c = "N" -> "n" [] c = "B" -> "b"
      [] c = "R" -> "r" [] c = "Q" -> "q" [] c = "K" -> "k" [] OTHER -> c

\* the decimal digits of an unsigned integer, as Display writes them
RECURSIVE to_string(_)
to_string(n) ==
    LET digit(d) == CHOOSE c \in DOMAIN DigitValue : DigitValue[c] = d
    IN IF n < 10 THEN <<digit(n)>> ELSE to_string(n \div 10) \o <<digit(n % 10)>>

\* impl Display for Square: (self.file() + 'a') as char, then self.rank() + 1
Square_to_string(square) ==
    <<CHOOSE c \in DOMAIN FileValue : FileValue[c] = file(square)>> \o to_string(rank(square) + 1)

\* impl TryFrom<BitBoard> for Square; None is the Err result
Square_try_from_bitboard(value) ==
    IF Cardinality(value) # 1 THEN None ELSE get_first_square(value)

\* a ChessBoard::to_fen that forgets the empty squares in front of a black piece
RECURSIVE ChessBoard_to_fen_rank_unflushed(_, _, _, _)
ChessBoard_to_fen_rank_unflushed(boards, i, j, empty) ==
    IF j = 8 THEN (IF empty > 0 THEN to_string(empty) ELSE <<>>)
    ELSE LET white == find_piece(boards["White"], new_unchecked(i, j))
             black == find_piece(boards["Black"], new_unchecked(i, j))
         IN IF white = NoPiece /\ black = NoPiece
            THEN ChessBoard_to_fen_rank_unflushed(boards, i, j + 1, empty + 1)
            ELSE (IF white # NoPiece /\ empty > 0 THEN to_string(empty) ELSE <<>>)
                 \o (IF white # NoPiece THEN <<LetterOfPiece[white]>> ELSE <<>>)
                 \o (IF black # NoPiece THEN <<to_ascii_lowercase(LetterOfPiece[black])>> ELSE <<>>)
                 \o ChessBoard_to_fen_rank_unflushed(boards, i, j + 1, 0)

\* the loop over the files j.. of rank i in ChessBoard::to_fen, `empty` squares pending
RECURSIVE ChessBoard_to_fen_rank(_, _, _, _)
ChessBoard_to_fen_rank(boards, i, j, empty) ==
    IF j = 8 THEN (IF empty > 0 THEN to_string(empty) ELSE <<>>)
    ELSE LET white == find_piece(boards["White"], new_unchecked(i, j))
             black == find_piece(boards["Black"], new_unchecked(i, j))
             flush(n) == IF n > 0 THEN to_string(n) ELSE <<>>
             after_white == IF white # NoPiece THEN 0 ELSE empty
         IN IF white = NoPiece /\ black = NoPiece
            THEN ChessBoard_to_fen_rank(boards, i, j + 1, empty + 1)
            ELSE (IF white # NoPiece THEN flush(empty) \o <<LetterOfPiece[white]>> ELSE <<>>)
                 \o (IF black # NoPiece
                     THEN flush(after_white) \o <<to_ascii_lowercase(LetterOfPiece[black])>>
                     ELSE <<>>)
                 \o ChessBoard_to_fen_rank(boards, i, j + 1, 0)

RECURSIVE ChessBoard_to_fen_ranks(_, _)
ChessBoard_to_fen_ranks(boards, i) ==
    ChessBoard_to_fen_rank(boards, i, 0, 0)
    \o (IF i > 0 THEN <<"/">> \o ChessBoard_to_fen_ranks(boards, i - 1) ELSE <<>>)

ChessBoard_to_fen(boards) == ChessBoard_to_fen_ranks(boards, 7)

StateFlags_to_fen(flags) ==
    LET castle_string ==
            (IF flags.white_king_castle_right THEN <<"K">> ELSE <<>>)
            \o (IF flags.white_queen_castle_right THEN <<"Q">> ELSE <<>>)
            \o (IF flags.black_king_castle_right THEN <<"k">> ELSE <<>>)
            \o (IF flags.black_queen_castle_right THEN <<"q">> ELSE <<>>)
    IN <<IF flags.active_color = "White" THEN "w" ELSE "b">> \o <<" ">>
       \o (IF castle_string = <<>> THEN <<"-">> ELSE castle_string)

\* Square::try_from(bb).unwrap() panics on a mask of several bits
State_to_fen_panics(state) ==
    state.en_passant # EMPTY /\ Square_try_from_bitboard(state.en_passant) = None

State_to_fen(state) ==
    ChessBoard_to_fen(state.boards) \o <<" ">>
    \o StateFlags_to_fen(state.flags) \o <<" ">>
    \o (IF state.en_passant = EMPTY THEN <<"-">>
        ELSE Square_to_string(Square_try_from_bitboard(state.en_passant)))
    \o <<" ">> \o to_string(state.halfmove) \o <<" ", "1">>

(***************************************************************************)
(* The positions of the perft tests                                        *)
(***************************************************************************)
\* "rnbqkbnr/pppppppp/8/8/8/8/PPPPPPPP/RNBQKBNR w KQkq - 0 1"
FEN_initial ==
    << "r", "n", "b", "q", "k", "b", "n", "r", "/", "p", "p", "p",
       "p", "p", "p", "p", "p", "/", "8", "/", "8", "/", "8", "/",
       "8", "/", "P", "P", "P", "P", "P", "P", "P", "P", "/", "R",
       "N", "B", "Q", "K", "B", "N", "R", " ", "w", " ", "K", "Q",
       "k", "q", " ", "-", " ", "0", " ", "1" >>

\* "r3k2r/p1ppqpb1/bn2pnp1/3PN3/1p2P3/2N2Q1p/PPPBBPPP/R3K2R w KQkq - 0 1"
FEN_position_2 ==
    << "r", "3", "k", "2", "r", "/", "p", "1", "p", "p", "q", "p",
       "b", "1", "/", "b", "n", "2", "p", "n", "p", "1", "/", "3",
       "P", "N", "3", "/", "1", "p", "2", "P", "3", "/", "2", "N",
       "2", "Q", "1", "p", "/", "P", "P", "P", "B", "B", "P", "P",
       "P", "/", "R", "3", "K", "2", "R", " ", "w", " ", "K", "Q",
       "k", "q", " ", "-", " ", "0", " ", "1" >>

\* "8/2p5/3p4/KP5r/1R3p1k/8/4P1P1/8 w - - 0 1"
FEN_position_3 ==
    << "8", "/", "2", "p", "5", "/", "3", "p", "4", "/", "K", "P",
       "5", "r", "/", "1", "R", "3", "p", "1", "k", "/", "8", "/",
       "4", "P", "1", "P", "1", "/", "8", " ", "w", " ", "-", " ",
       "-", " ", "0", " ", "1" >>

\* "4k3/8/8/8/8/8/8/4K2R w K - 0 1"
FEN_rook_endgame ==
    << "4", "k", "3", "/", "8", "/", "8", "/", "8", "/", "8", "/",
       "8", "/", "8", "/", "4", "K", "2", "R", " ", "w", " ", "K",
       " ", "-", " ", "0", " ", "1" >>

\* "r3k2r/8/8/8/8/8/8/R3K2R w KQkq - 0 1"
FEN_rooks_and_kings ==
    << "r", "3", "k", "2", "r", "/", "8", "/", "8", "/", "8", "/",
       "8", "/", "8", "/", "8", "/", "R", "3", "K", "2", "R", " ",
       "w", " ", "K", "Q", "k", "q", " ", "-", " ", "0", " ", "1" >>

(***************************************************************************)
(* move/mod.rs: MoveList.  The arrays `moves` and `ply_first_move` are     *)
(* kept as the prefix of the slots written so far; a slot never written    *)
(* holds what MoveList::new put there, Move(0) or 0.                       *)
(***************************************************************************)
\* moves: [Move; 2048]
MOVES_LEN == 2048

\* ply_first_move: [usize; 128]
PLY_FIRST_MOVE_LEN == 128

\* Move(0)
Move_zero == Move_new(0, 0, "QuietMove")

MoveList_new ==
    [ moves |-> <<>>, ply_first_move |-> <<>>, current_ply |-> 0, total_count |-> 0 ]

\* self.moves[i]
moves_at(list, i) == IF i < Len(list.moves) THEN list.moves[i + 1] ELSE Move_zero

\* self.ply_first_move[ply]; slot 0 is never written
ply_first_move_at(list, ply) ==
    IF ply >= 1 /\ ply <= Len(list.ply_first_move) THEN list.ply_first_move[ply] ELSE 0

\* array[at] = value, on the written prefix of an array whose slot `first` is its first entry
store(array, first, at, value) ==
    IF at - first + 1 <= Len(array)
    THEN [array EXCEPT ![at - first + 1] = value]
    ELSE Append(array, value)

\* an insert that does not look at current_ply
insert_panics_unchecked(list) == list.total_count >= MOVES_LEN

insert_panics(list) == list.current_ply = 0 \/ list.total_count >= MOVES_LEN

insert(list, m) ==
    [list EXCEPT !.moves = store(@, 0, list.total_count, m),
                 !.total_count = @ + 1]

ply_number(list) == list.current_ply

ply_size_panics(list, ply) ==
    \/ ply = 0
    \/ ply >= PLY_FIRST_MOVE_LEN
    \/ ply # list.current_ply /\ ply + 1 >= PLY_FIRST_MOVE_LEN

ply_size(list, ply) ==
    LET first_move_index == ply_first_move_at(list, ply)
        next_ply_first_move == IF ply = list.current_ply THEN list.total_count
                               ELSE ply_first_move_at(list, ply + 1)
    IN next_ply_first_move - first_move_index

MoveList_move_panics(list, ply, index) ==
    \/ ply = 0
    \/ ply > list.current_ply
    \/ ply_size_panics(list, ply)
    \/ index >= ply_size(list, ply)
    \/ ply_first_move_at(list, ply) + index >= MOVES_LEN

MoveList_move(list, ply, index) == moves_at(list, ply_first_move_at(list, ply) + index)

new_ply_panics(list) == list.current_ply + 1 >= PLY_FIRST_MOVE_LEN

new_ply(list) ==
    [list EXCEPT !.current_ply = @ + 1,
                 !.ply_first_move = store(@, 1, list.current_ply + 1, list.total_count)]

current_ply_panics(list) == list.current_ply = 0

\* &self.moves[first_move_index..self.total_count]
current_ply(list) ==
    LET first_move_index == ply_first_move_at(list, list.current_ply)
    IN [ i \in 1..(list.total_count - first_move_index) |->
            moves_at(list, first_move_index + i - 1) ]

\* a drop_current_ply that forgets to give the moves of the ply back
drop_current_ply_keeping_moves(list) == [list EXCEPT !.current_ply = @ - 1]

drop_current_ply_panics(list) == list.current_ply = 0

drop_current_ply(list) ==
    [list EXCEPT !.total_count = ply_first_move_at(list, list.current_ply),
                 !.current_ply = @ - 1]

\* position.pseudo_legal_moves(move_list): the generator inserts its moves one by
\* one, moves[first] to moves[last] in this order (the range is walked in halves)
RECURSIVE insert_each(_, _, _, _)
insert_each(list, moves, first, last) ==
    IF first > last THEN list
    ELSE IF first = last THEN insert(list, moves[first])
    ELSE CHOOSE out \in { insert_each(half, moves, (first + last) \div 2 + 1, last) :
                            half \in {insert_each(list, moves, first, (first + last) \div 2)} } :
            TRUE

pseudo_legal_moves_into_panics(state, list) ==
    LET moves == pseudo_legal_moves(state)
    IN moves # <<>> /\ (list.current_ply = 0 \/ list.total_count + Len(moves) > MOVES_LEN)

pseudo_legal_moves_into(state, list) ==
    CHOOSE out \in { insert_each(list, moves, 1, Len(moves)) :
                       moves \in {pseudo_legal_moves(state)} } : TRUE

(***************************************************************************)
(* chess_engines/src/mcts/mod.rs.  An f32 is kept in fixed point: One      *)
(* stands for 1.0                                                          *)
(***************************************************************************)
One == 4096

\* evaluates a final board: no legal move should be left
white_score(pos) ==
    IF is_check(pos.state.state)
    THEN (IF pos.state.state.flags.active_color = "White" THEN 0 ELSE One)
    ELSE One \div 2

\* State::insufficient_material: bare kings, or one knight or one bishop besides
\* the kings
insufficient_material(state) ==
    LET b(c, p) == Cardinality(state.boards[c][p])
        count(p) == b("White", p) + b("Black", p)
    IN /\ count("Pawn") + count("Rook") + count("Queen") = 0
       /\ count("Knight") + count("Bishop") <= 1

\* the moves rollout_policy can return: the pseudo-legal moves are tried in a
\* random order and the first one that was legal is returned; {} stands for None
rollout_policy(pos) ==
    LET move_list == pseudo_legal_moves(pos.state.state)
    IN { move_list[i] : i \in { j \in 1..Len(move_list) :
                                  was_move_legal(make(pos, move_list[j]).state.state) } }

\* MctsEngine::new(exploration_weight, ..): an empty node table
MctsEngine_new == [nodes |-> [key \in {} |-> 0], exploration_weight |-> One]

\* the key of a position in the node table: its hash
key_of(pos) == pos.state.hasher.hash

contains_key(table, pos) == key_of(pos) \in DOMAIN table

HashMap_insert(table, pos, node) ==
    [key \in DOMAIN table \cup {key_of(pos)} |->
        IF key = key_of(pos) THEN node ELSE table[key]]

OutEdge_new(action) == [action |-> action, visits |-> 0, eval |-> 0]

\* the legal moves of a position in the order of the generator: the filter of
\* select_ucb1 and of Node::init
legal_moves(pos) ==
    SelectSeq(pseudo_legal_moves(pos.state.state),
              LAMBDA m : was_move_legal(make(pos, m).state.state))

\* Node::init: one out-edge per legal move
Node_init(pos, initial_eval) ==
    CHOOSE out \in { [ count |-> 1,
                       out_edges |-> [i \in 1..Len(legal) |-> OutEdge_new(legal[i])],
                       initial_eval |-> initial_eval,
                       eval |-> initial_eval ] : legal \in {legal_moves(pos)} } : TRUE

\* the index of the first edge of the action; get_action_edge unwraps it
get_action_edge(node, m) ==
    LET found == { i \in 1..Len(node.out_edges) : node.out_edges[i].action = m }
    IN IF found = {} THEN None ELSE CHOOSE i \in found : \A j \in found : i <= j

\* the last of the indexes in a non-empty set: max_by_key returns the last of
\* the greatest elements
last_of(indexes) == CHOOSE i \in indexes : \A j \in indexes : j <= i

\* Node::get_best_action: <<>> for None
get_best_action(node) ==
    LET edges == node.out_edges
        best == { i \in 1..Len(edges) : \A j \in 1..Len(edges) : edges[j].visits <= edges[i].visits }
    IN IF edges = <<>> THEN <<>> ELSE <<edges[last_of(best)].action>>

\* ucb1_class with the key of an edge without visits taken for the smallest
ucb1_class_unvisited_last(exploration_weight, count, edge) ==
    IF edge.visits > 0 THEN 1 ELSE 0

\* the f32 key of an edge in select_ucb1 is not computed.  An edge without
\* visits has the key NaN (0/0 when the count is 1, 0 * inf when the weight is
\* 0), +inf or -inf (x/0, by the sign of the weight); OrderedFloat puts NaN above
\* +inf above the finite keys above -inf.
ucb1_class(exploration_weight, count, edge) ==
    IF edge.visits > 0 THEN 1
    ELSE IF count = 1 \/ exploration_weight = 0 THEN 3
    ELSE IF exploration_weight > 0 THEN 2 ELSE 0

\* among finite keys: the key of edge a is at least the one of edge b whenever
\* neither its evaluation term t * eval nor its exploration term, which falls
\* with the visits (for a positive weight), is smaller
ucb1_at_least(exploration_weight, count, t, a, b) ==
    /\ t * a.eval >= t * b.eval
    /\ \/ exploration_weight = 0
       \/ count = 1
       \/ exploration_weight > 0 /\ a.visits <= b.visits
       \/ exploration_weight < 0 /\ a.visits >= b.visits

\* max_by_key over the legal moves: the last of the moves with the greatest
\* key; when the order of two finite keys depends on the value of the f32
\* expression, each of them can be the greatest
max_by_key(exploration_weight, old_node, t, moves) ==
    LET edge(i) == old_node.out_edges[get_action_edge(old_node, moves[i])]
        class(i) == ucb1_class(exploration_weight, old_node.count, edge(i))
        at_least(i, j) == ucb1_at_least(exploration_weight, old_node.count, t, edge(i), edge(j))
        top == { i \in 1..Len(moves) : \A j \in 1..Len(moves) : class(j) <= class(i) }
        greatest == { i \in top : \A j \in top : at_least(i, j) }
        maximal == { i \in top : \A j \in top : at_least(j, i) => at_least(i, j) }
    IN IF moves = <<>> THEN {}
       ELSE IF \E i \in top : class(i) # 1 THEN {moves[last_of(top)]}
       ELSE IF greatest # {} THEN {moves[last_of(greatest)]}
       ELSE {moves[i] : i \in maximal}

\* select_ucb1 unwraps the node of the position
select_ucb1_panics(engine, pos) == ~contains_key(engine.nodes, pos)

\* the moves select_ucb1 can return; {} stands for None
select_ucb1(engine, pos) ==
    LET t == IF pos.state.state.flags.active_color = "White" THEN 1 ELSE -1
    IN CHOOSE out \in { max_by_key(engine.exploration_weight, old_node, t, moves) :
                          old_node \in {engine.nodes[key_of(pos)]},
                          moves \in {legal_moves(pos)} } : TRUE

\* the fold of update_eval over the first i edges
RECURSIVE fold_evals(_, _, _)
fold_evals(out_edges, count, i) ==
    IF i = 0 THEN 0
    ELSE fold_evals(out_edges, count, i - 1)
            + (((out_edges[i].visits * One) \div count) * out_edges[i].eval) \div One

\* update_eval that counts the visit on the edge but not on the node
update_eval_without_count(engine, pos, m, move_eval) ==
    LET node == engine.nodes[key_of(pos)]
        out_edges == [node.out_edges EXCEPT ![get_action_edge(node, m)] =
                         [@ EXCEPT !.visits = @ + 1, !.eval = move_eval]]
    IN [engine EXCEPT !.nodes[key_of(pos)] =
           [ count |-> node.count,
             out_edges |-> out_edges,
             initial_eval |-> node.initial_eval,
             eval |-> node.initial_eval \div node.count
                         + fold_evals(out_edges, node.count, Len(out_edges)) ]]

\* update_eval: the engine afterwards; it returns the eval of the node
update_eval(engine, pos, m, move_eval) ==
    LET node == engine.nodes[key_of(pos)]
        out_edges == [node.out_edges EXCEPT ![get_action_edge(node, m)] =
                         [@ EXCEPT !.visits = @ + 1, !.eval = move_eval]]
        count == node.count + 1
    IN [engine EXCEPT !.nodes[key_of(pos)] =
           [ count |-> count,
             out_edges |-> out_edges,
             initial_eval |-> node.initial_eval,
             eval |-> node.initial_eval \div count
                         + fold_evals(out_edges, count, Len(out_edges)) ]]

(***************************************************************************)
(* chess_engines/src/alpha_beta: SearchContext.  Its make_unmaker is the   *)
(* Position, its move_list the MoveList; indexes into a ply count from 0   *)
(***************************************************************************)
\* i32::MIN + 1
MIN_SCORE == -2147483647

\* i32::MAX
MAX_SCORE == 2147483647

\* is_quiet that knows plain moves only: pawn pushes by two and castles pass for loud
is_quiet_only_quiet_move(code) == code = "QuietMove"

\* is_quiet as "not a capture": the promotions that take nothing pass for quiet
is_quiet_when_no_capture(code) == ~is_capture(code)

is_quiet(code) == code \in {"QuietMove", "DoublePawnPush", "KingCastle", "QueenCastle"}

\* ply.swap(i, j)
swap(ply, i, j) == [ply EXCEPT ![i + 1] = ply[j + 1], ![j + 1] = ply[i + 1]]

\* the second loop of order_ply from index i on: a loud move goes to sorted_index
RECURSIVE loud_first(_, _)
loud_first(acc, i) ==
    IF i >= Len(acc.ply) THEN acc.ply
    ELSE CHOOSE out \in
            { loud_first(next, i + 1) :
                next \in { IF ~is_quiet(acc.ply[i + 1].code)
                           THEN [ply |-> swap(acc.ply, i, acc.sorted_index),
                                 sorted_index |-> acc.sorted_index + 1]
                           ELSE acc } } : TRUE

\* order_ply(first): first is <<>> for None and <<m>> for Some(m)
order_ply(list, first) ==
    LET ply == current_ply(list)
        found == IF first = <<>> THEN {}
                 ELSE { i \in 0..(Len(ply) - 1) : ply[i + 1] = first[1] }
        at == CHOOSE i \in found : \A j \in found : i <= j
        placed == IF found = {} THEN [ply |-> ply, sorted_index |-> 0]
                  ELSE [ply |-> swap(ply, at, 0), sorted_index |-> 1]
        first_move_index == ply_first_move_at(list, list.current_ply)
    IN CHOOSE out \in
          { [list EXCEPT !.moves =
                [k \in 1..Len(list.moves) |->
                    IF k > first_move_index /\ k <= first_move_index + Len(ordered)
                    THEN ordered[k - first_move_index] ELSE list.moves[k]]] :
            ordered \in {loud_first(placed, placed.sorted_index)} } : TRUE

\* prev_pv.pop(): the move popped, and the vector afterwards
Vec_pop(vec) ==
    IF vec = <<>> THEN [ret |-> <<>>, vec |-> <<>>]
    ELSE [ret |-> <<vec[Len(vec)]>>, vec |-> SubSeq(vec, 1, Len(vec) - 1)]

\* add_moves_to_list: the MoveList afterwards
add_moves_to_list(pos, list, first) ==
    CHOOSE out \in { order_ply(filled, first) :
                       filled \in {pseudo_legal_moves_into(pos.state.state, new_ply(list))} } :
        TRUE

\* the loop of is_checkmate from the move of index i on: every move is made and
\* unmade, the first legal one ends the loop
RECURSIVE first_legal(_, _, _)
first_legal(pos, ply, i) ==
    IF i >= Len(ply) THEN [position |-> pos, move_found |-> FALSE]
    ELSE CHOOSE out \in
            { IF was_move_legal(after.state.state)
              THEN [position |-> unmake(after, ply[i + 1]), move_found |-> TRUE]
              ELSE first_legal(unmake(after, ply[i + 1]), ply, i + 1) :
                after \in {make(pos, ply[i + 1])} } : TRUE

\* is_checkmate: what it returns, the position and the MoveList afterwards
is_checkmate(pos, list) ==
    IF ~is_check(pos.state.state)
    THEN [ret |-> FALSE, position |-> pos, move_list |-> list]
    ELSE CHOOSE out \in
            { CHOOSE walked \in
                { [ret |-> ~walk.move_found,
                   position |-> walk.position,
                   move_list |-> drop_current_ply(filled)] :
                    walk \in {first_legal(pos, ply, 0) : ply \in {current_ply(filled)}} } : TRUE :
                filled \in {pseudo_legal_moves_into(pos.state.state, new_ply(list))} } : TRUE

\* active_side_move_number for a side to move: the number and the MoveList afterwards
active_side_move_number(state, list) ==
    CHOOSE out \in
        { [ret |-> ply_size(filled, ply_number(filled)),
           move_list |-> drop_current_ply(filled)] :
            filled \in {pseudo_legal_moves_into(state, new_ply(list))} } : TRUE

MOBILITY_COEF == 5

\* active_side_move_number for states[i], states[i + 1], ... one after the other:
\* the numbers and the MoveList afterwards
RECURSIVE side_move_numbers(_, _, _)
side_move_numbers(states, acc, i) ==
    IF i > Len(states) THEN acc
    ELSE CHOOSE out \in
            { side_move_numbers(states, [ret |-> Append(acc.ret, counted.ret),
                                         move_list |-> counted.move_list], i + 1) :
                counted \in {active_side_move_number(states[i], acc.move_list)} } : TRUE

\* mobility_score: the active color is toggled for the second count and toggled back
mobility_score(pos, list) ==
    LET state == pos.state.state
        toggled == [state EXCEPT !.flags = StateFlags_toggle_color(@)]
    IN CHOOSE out \in
          { [ret |-> MOBILITY_COEF * (counted.ret[1] - counted.ret[2]),
             move_list |-> counted.move_list] :
              counted \in {side_move_numbers(<<state, toggled>>,
                                             [ret |-> <<>>, move_list |-> list], 1)} } : TRUE

BitBoard_file(number) == {square \in Squares : file(square) = number}

count_ones(b) == Cardinality(b)

\* the doubled pawns of a side: on every file with pawns, the pawns but one
doubled_pawns(pawns) ==
    LET on(col) == count_ones(BitBoard_file(col) \cap pawns)
        RECURSIVE sum(_)
        sum(col) == IF col > 7 THEN 0
                    ELSE (IF on(col) > 0 THEN on(col) - 1 ELSE 0) + sum(col + 1)
    IN sum(0)

doubled_pawn_number(state) ==
    doubled_pawns(inactive_boards(state)["Pawn"]) - doubled_pawns(active_boards(state)["Pawn"])

\* isolated_pawns without the two edge files
isolated_pawns_without_edges(pawns) ==
    LET has(col) == col \in 0..7 /\ BitBoard_file(col) \cap pawns # {}
    IN Cardinality({ col \in 1..6 : has(col) /\ ~has(col - 1) /\ ~has(col + 1) })

\* the files with pawns of a side whose adjacent files have none
isolated_pawns(pawns) ==
    LET has(col) == col \in 0..7 /\ BitBoard_file(col) \cap pawns # {}
    IN Cardinality({ col \in 0..7 : has(col) /\ ~has(col - 1) /\ ~has(col + 1) })

isolated_pawn_number(state) ==
    isolated_pawns(inactive_boards(state)["Pawn"]) - isolated_pawns(active_boards(state)["Pawn"])

DOUBLED_PAWN_COEF == 40

ISOLATED_PAWN_COEF == 40

pawn_structure_score(state) ==
    DOUBLED_PAWN_COEF * doubled_pawn_number(state)
        + ISOLATED_PAWN_COEF * isolated_pawn_number(state)

board_material(active_pieces, passive_pieces, coef) ==
    coef * (count_ones(active_pieces) - count_ones(passive_pieces))

material_score(state) ==
    LET of(piece, coef) ==
            board_material(active_boards(state)[piece], inactive_boards(state)[piece], coef)
    IN of("Pawn", 100) + of("Knight", 300) + of("Bishop", 300) + of("Rook", 500)
        + of("Queen", 900)

\* evaluate: the score, the position and the MoveList afterwards
evaluate(pos, list) ==
    CHOOSE out \in
        { IF mate.ret
          THEN [ret |-> -100000, position |-> mate.position, move_list |-> mate.move_list]
          ELSE CHOOSE scored \in
                  { [ret |-> pawn_structure_score(mate.position.state.state)
                               + material_score(mate.position.state.state) + mobility.ret,
                     position |-> mate.position,
                     move_list |-> mobility.move_list] :
                      mobility \in {mobility_score(mate.position, mate.move_list)} } : TRUE :
            mate \in {is_checkmate(pos, list)} } : TRUE

\* TtEntry and TranspositionTable::store: the table keeps the last entry stored for a hash
TranspositionTable_new == [hash \in {} |-> 0]

TranspositionTable_store(table, entry) ==
    [hash \in DOMAIN table \cup {entry.hash} |->
        IF hash = entry.hash THEN entry ELSE table[hash]]

SearchContext_new(max_depth) ==
    [transpos |-> TranspositionTable_new, max_depth |-> max_depth, pv |-> <<>>, prev_pv |-> <<>>]

(***************************************************************************)
(* The state of the program                                                *)
(***************************************************************************)
VARIABLES
    root,       \* the name of the FEN the position was built from
    position,   \* the Position<ZobristHasher>
    made,       \* the moves the caller has made and not yet unmade, oldest first
    aborted,    \* TRUE once a panic has aborted the process
    depth,      \* how many nested makes the caller goes down from the root
    move_list,  \* the MoveList
    call,       \* the last MoveList operation a caller invoked, and what it returned
    opened,     \* per open ply: what the list looked like before new_ply, and the moves inserted since
    stride,     \* the number of moves the filling caller inserts into each ply
    stack,      \* the activations of recursive_perft, of rollout and of playout, outermost first
    nodes,      \* the node counter recursive_perft adds to
    engine      \* the engine: the MctsEngine, or the SearchContext of the alpha-beta search

vars == <<root, position, made, aborted, depth, move_list, call, opened, stride, stack, nodes, engine>>

positionVars == <<root, position, made, depth>>
listVars == <<move_list, call, opened, stride>>
perftVars == <<stack, nodes>>

\* exploration bounds: the number of nested makes from a root position
MaxDepth == 3

FEN ==
    [ initial |-> FEN_initial,
      position_2 |-> FEN_position_2,
      position_3 |-> FEN_position_3,
      rook_endgame |-> FEN_rook_endgame,
      rooks_and_kings |-> FEN_rooks_and_kings ]

DepthOf(r) ==
    CASE r \in {"initial", "position_2", "position_3"} -> MaxDepth - 2
      [] r \in {"rooks_and_kings"} -> MaxDepth - 1
      [] OTHER -> MaxDepth

Range(seq) == {seq[i] : i \in 1..Len(seq)}

NoCall == [op |-> "new", ret |-> "ok"]

\* a fresh MoveList and no perft running
InitRest ==
    /\ move_list = MoveList_new
    /\ call = NoCall
    /\ opened = <<>>
    /\ stride = 0
    /\ stack = <<>>
    /\ nodes = 0
    /\ engine = MctsEngine_new

Init ==
    /\ root \in DOMAIN FEN
    /\ position = Position_from_fen(FEN[root])
    /\ made = <<>>
    /\ aborted = FALSE
    /\ depth = DepthOf(root)
    /\ InitRest

\* a caller (apply_children, recursive_perft, the searches) makes one of the moves
\* pseudo_legal_moves emits; it looks at the children of a position only when the
\* move that led to it was legal
Make(m) ==
    /\ ~aborted
    /\ Len(made) < depth
    /\ made = <<>> \/ was_move_legal(position.state.state)
    /\ IF make_panics(position, m)
       THEN aborted' = TRUE /\ UNCHANGED <<position, made>>
       ELSE /\ position' = make(position, m)
            /\ made' = Append(made, m)
            /\ UNCHANGED aborted
    /\ UNCHANGED <<engine, root, depth, listVars, perftVars>>

\* ... and unmakes it before it returns
Unmake ==
    /\ ~aborted
    /\ made # <<>>
    /\ IF unmake_panics(position, made[Len(made)])
       THEN aborted' = TRUE /\ UNCHANGED <<position, made>>
       ELSE /\ position' = unmake(position, made[Len(made)])
            /\ made' = SubSeq(made, 1, Len(made) - 1)
            /\ UNCHANGED aborted
    /\ UNCHANGED <<engine, root, depth, listVars, perftVars>>

Children == IF ~aborted /\ Len(made) < depth
            THEN Range(pseudo_legal_moves(position.state.state)) ELSE {}

Next ==
    \/ \E m \in Children : Make(m)
    \/ Unmake

Spec == Init /\ [][Next]_vars

\* the second perft position, explored as deep as its perft table goes
TreeDepth == 3

InitTree ==
    /\ root = "position_2"
    /\ position = Position_from_fen(FEN[root])
    /\ made = <<>>
    /\ aborted = FALSE
    /\ depth = TreeDepth
    /\ InitRest

SpecTree == InitTree /\ [][Next]_vars

(***************************************************************************)
(* A caller of the MoveList alone                                          *)
(***************************************************************************)
\* exploration bounds: open plies, moves in the list, and the moves a caller inserts
MaxOpen == 3
MaxTotal == 4
SomeMoves == { Move_new(0, 1, "QuietMove"), Move_new(0, 5, "Capture") }

\* what a caller can see of a MoveList through its methods
Observed(list) ==
    [ ply_number |-> ply_number(list),
      total_count |-> list.total_count,
      sizes |-> [ply \in 1..list.current_ply |-> ply_size(list, ply)],
      frames |-> [ply \in 1..list.current_ply |->
                     [i \in 1..ply_size(list, ply) |-> MoveList_move(list, ply, i - 1)]] ]

Panic(op) ==
    /\ aborted' = TRUE
    /\ call' = [op |-> op, ret |-> "panic"]
    /\ UNCHANGED <<move_list, opened>>

NewPly ==
    /\ ~aborted
    /\ Len(opened) < MaxOpen
    /\ IF new_ply_panics(move_list) THEN Panic("new_ply")
       ELSE /\ move_list' = new_ply(move_list)
            /\ call' = [op |-> "new_ply", ret |-> "ok"]
            /\ opened' = Append(opened, [before |-> Observed(move_list), inserted |-> <<>>])
            /\ UNCHANGED aborted
    /\ UNCHANGED <<engine, positionVars, perftVars, stride>>

Insert(m) ==
    /\ ~aborted
    /\ move_list.total_count < MaxTotal
    /\ IF insert_panics(move_list) THEN Panic("insert")
       ELSE /\ move_list' = insert(move_list, m)
            /\ call' = [op |-> "insert", ret |-> "ok"]
            /\ opened' = IF opened = <<>> THEN opened
                         ELSE [opened EXCEPT ![Len(opened)].inserted = Append(@, m)]
            /\ UNCHANGED aborted
    /\ UNCHANGED <<engine, positionVars, perftVars, stride>>

CurrentPly ==
    /\ ~aborted
    /\ IF current_ply_panics(move_list) THEN Panic("current_ply")
       ELSE /\ call' = [op |-> "current_ply", ret |-> current_ply(move_list)]
            /\ UNCHANGED <<move_list, opened, aborted>>
    /\ UNCHANGED <<engine, positionVars, perftVars, stride>>

DropCurrentPly ==
    /\ ~aborted
    /\ IF drop_current_ply_panics(move_list) THEN Panic("drop_current_ply")
       ELSE /\ move_list' = drop_current_ply(move_list)
            /\ call' = [op |-> "drop_current_ply", ret |-> "ok"]
            /\ opened' = SubSeq(opened, 1, Len(opened) - 1)
            /\ UNCHANGED aborted
    /\ UNCHANGED <<engine, positionVars, perftVars, stride>>

InitList ==
    /\ root = "initial"
    /\ position = Position_from_fen(FEN[root])
    /\ made = <<>>
    /\ aborted = FALSE
    /\ depth = 0
    /\ InitRest

NextList ==
    \/ NewPly
    \/ \E m \in SomeMoves : Insert(m)
    \/ CurrentPly
    \/ DropCurrentPly

SpecList == InitList /\ [][NextList]_vars

(***************************************************************************)
(* A caller that fills the MoveList: it opens a ply, inserts `stride`      *)
(* moves into it, opens the next, and so on                                *)
(***************************************************************************)
Strides == {0, 16, MOVES_LEN}

FillNewPly ==
    /\ ~aborted
    /\ move_list.current_ply = 0 \/ ply_size(move_list, move_list.current_ply) >= stride
    /\ IF new_ply_panics(move_list) THEN Panic("new_ply")
       ELSE /\ move_list' = new_ply(move_list)
            /\ call' = [op |-> "new_ply", ret |-> "ok"]
            /\ UNCHANGED <<opened, aborted>>
    /\ UNCHANGED <<engine, positionVars, perftVars, stride>>

FillInsert ==
    /\ ~aborted
    /\ move_list.current_ply # 0 /\ ply_size(move_list, move_list.current_ply) < stride
    /\ IF insert_panics(move_list) THEN Panic("insert")
       ELSE /\ move_list' = insert(move_list, Move_new(0, 1, "QuietMove"))
            /\ call' = [op |-> "insert", ret |-> "ok"]
            /\ UNCHANGED <<opened, aborted>>
    /\ UNCHANGED <<engine, positionVars, perftVars, stride>>

InitFill ==
    /\ root = "initial"
    /\ position = Position_from_fen(FEN[root])
    /\ made = <<>>
    /\ aborted = FALSE
    /\ depth = 0
    /\ move_list = MoveList_new
    /\ call = NoCall
    /\ opened = <<>>
    /\ stride \in Strides
    /\ stack = <<>>
    /\ nodes = 0
    /\ engine = MctsEngine_new

NextFill ==
    \/ FillNewPly
    \/ FillInsert

SpecFill == InitFill /\ [][NextFill]_vars

(***************************************************************************)
(* chess_perftree/src/main.rs: recursive_perft, one activation per entry   *)
(* of `stack`                                                              *)
(***************************************************************************)
\* the cases of recursive_perft_test: (fen, depth, nodes)
cases ==
    { <<"initial", 1, 20>>, <<"initial", 2, 400>>, <<"initial", 3, 8902>>,
      <<"initial", 4, 197281>>,
      <<"position_2", 1, 48>>, <<"position_2", 2, 2039>>, <<"position_2", 3, 97862>>,
      <<"position_3", 1, 14>>, <<"position_3", 2, 191>>, <<"position_3", 3, 2812>>,
      <<"position_3", 4, 43238>> }

\* an activation that has not run yet
Activation(d) == [pc |-> "entry", depth |-> d, ply_number |-> 0, ply_size |-> 0, m |-> 0]

top == stack[Len(stack)]

Pop == SubSeq(stack, 1, Len(stack) - 1)

\* one turn of the loop of an activation with depth == 1: the move is made,
\* counted when it was legal, and unmade
leaf(acc, mv) ==
    CHOOSE out \in { [ position |-> unmake(after, mv),
                       nodes |-> IF was_move_legal(after.state.state)
                                 THEN acc.nodes + 1 ELSE acc.nodes ] :
                     after \in {make(acc.position, mv)} } : TRUE

\* the turns of that loop for the moves first..last of the ply, in this order
\* (the range is walked in halves)
RECURSIVE leaves(_, _, _, _)
leaves(acc, frame, first, last) ==
    IF first > last THEN acc
    ELSE IF first = last
    THEN leaf(acc, MoveList_move(move_list, frame.ply_number, first))
    ELSE CHOOSE out \in { leaves(half, frame, (first + last) \div 2 + 1, last) :
                            half \in {leaves(acc, frame, first, (first + last) \div 2)} } :
            TRUE

\* the activation starts: depth == 0 counts one node and returns; otherwise the
\* moves of the position go into a new ply
PerftEntry ==
    /\ ~aborted /\ stack # <<>> /\ top.pc = "entry"
    /\ IF top.depth = 0
       THEN /\ nodes' = nodes + 1
            /\ stack' = Pop
            /\ UNCHANGED <<move_list, aborted>>
       ELSE IF \/ new_ply_panics(move_list)
               \/ pseudo_legal_moves_into_panics(position.state.state, new_ply(move_list))
            THEN aborted' = TRUE /\ UNCHANGED <<move_list, stack, nodes>>
            ELSE \E list \in {pseudo_legal_moves_into(position.state.state, new_ply(move_list))} :
                    /\ move_list' = list
                    /\ stack' = [stack EXCEPT ![Len(stack)] =
                                    [@ EXCEPT !.pc = "loop",
                                              !.ply_number = ply_number(list),
                                              !.ply_size = ply_size(list, ply_number(list))]]
                    /\ UNCHANGED <<nodes, aborted>>
    /\ UNCHANGED <<engine, positionVars, call, opened, stride>>

\* one turn of the loop with depth > 1: the move is made; when it was legal the
\* next activation starts, otherwise the move is unmade at once
PerftLoop ==
    /\ ~aborted /\ stack # <<>> /\ top.pc = "loop"
    /\ top.depth > 1 /\ top.m < top.ply_size
    /\ \E mv \in {MoveList_move(move_list, top.ply_number, top.m)} :
          IF MoveList_move_panics(move_list, top.ply_number, top.m) \/ make_panics(position, mv)
          THEN aborted' = TRUE /\ UNCHANGED <<position, stack>>
          ELSE /\ \E after \in {make(position, mv)} :
                     IF was_move_legal(after.state.state)
                     THEN /\ position' = after
                          /\ stack' = Append(stack, Activation(top.depth - 1))
                     ELSE /\ position' = unmake(after, mv)
                          /\ stack' = [stack EXCEPT ![Len(stack)].m = @ + 1]
               /\ UNCHANGED aborted
    /\ UNCHANGED <<engine, root, made, depth, listVars, nodes>>

\* the whole loop with depth == 1
PerftLeaves ==
    /\ ~aborted /\ stack # <<>> /\ top.pc = "loop"
    /\ top.depth = 1 /\ top.m < top.ply_size
    /\ \E result \in {leaves([position |-> position, nodes |-> nodes],
                               top, top.m, top.ply_size - 1)} :
          /\ position' = result.position
          /\ nodes' = result.nodes
    /\ stack' = [stack EXCEPT ![Len(stack)].m = top.ply_size]
    /\ UNCHANGED <<engine, root, made, depth, aborted, listVars>>

\* the loop is over: the ply is dropped and the activation returns; its caller
\* unmakes the move it had made and goes on with the next one
PerftReturn ==
    /\ ~aborted /\ stack # <<>> /\ top.pc = "loop"
    /\ top.m >= top.ply_size
    /\ IF drop_current_ply_panics(move_list)
       THEN aborted' = TRUE /\ UNCHANGED <<move_list, stack, position>>
       ELSE /\ move_list' = drop_current_ply(move_list)
            /\ IF Len(stack) = 1
               THEN stack' = Pop /\ UNCHANGED position
               ELSE LET caller == stack[Len(stack) - 1]
                        mv == MoveList_move(move_list', caller.ply_number, caller.m)
                    IN /\ position' = unmake(position, mv)
                       /\ stack' = [Pop EXCEPT ![Len(stack) - 1].m = @ + 1]
            /\ UNCHANGED aborted
    /\ UNCHANGED <<engine, root, made, depth, call, opened, stride, nodes>>

InitPerft ==
    /\ \E c \in cases : root = c[1] /\ depth = c[2]
    /\ position = Position_from_fen(FEN[root])
    /\ made = <<>>
    /\ aborted = FALSE
    /\ move_list = MoveList_new
    /\ call = NoCall
    /\ opened = <<>>
    /\ stride = 0
    /\ stack = <<Activation(depth)>>
    /\ nodes = 0
    /\ engine = MctsEngine_new

NextPerft ==
    \/ PerftEntry
    \/ PerftLoop
    \/ PerftLeaves
    \/ PerftReturn

SpecPerft == InitPerft /\ [][NextPerft]_vars

(***************************************************************************)
(* square.rs: a caller that writes squares and parses square strings       *)
(***************************************************************************)
\* the characters the caller builds two-character strings from
SquareChars == {"a", "b", "c", "d", "e", "f", "g", "h", "i", "A",
                "0", "1", "2", "3", "4", "5", "6", "7", "8", "9"}

\* square.to_string()
SquareToString(square) ==
    /\ ~aborted
    /\ call' = [op |-> "to_string", square |-> square, ret |-> Square_to_string(square)]
    /\ UNCHANGED <<engine, positionVars, perftVars, move_list, opened, stride, aborted>>

\* Square::try_from(str) of the string `str`; `square` is the square the string
\* was written from, None for a string of the caller.  With the rank digit '0'
\* the subtraction `rank - ZERO - 1` overflows u8: a build with overflow checks
\* panics, a build without them wraps and goes on with rank 255.
SquareTryFrom(str, square) ==
    /\ ~aborted
    /\ \E parsed \in {Square_try_from(str)} :
          IF parsed = Underflow
          THEN \/ /\ aborted' = TRUE
                  /\ call' = [op |-> "try_from", str |-> str, square |-> square, ret |-> "panic"]
               \/ /\ call' = [op |-> "try_from", str |-> str, square |-> square,
                              ret |-> (((DigitValue[str[2]] - 1) % 256) * 8
                                        + FileValue[str[1]]) % 256]
                  /\ UNCHANGED aborted
          ELSE /\ call' = [op |-> "try_from", str |-> str, square |-> square, ret |-> parsed]
               /\ UNCHANGED aborted
    /\ UNCHANGED <<engine, positionVars, perftVars, move_list, opened, stride>>

InitSquare == InitList

NextSquare ==
    \/ \E square \in Squares : SquareToString(square)
    \/ call.op = "to_string" /\ SquareTryFrom(call.ret, call.square)
    \/ \E c1, c2 \in SquareChars : SquareTryFrom(<<c1, c2>>, None)

SpecSquare == InitSquare /\ [][NextSquare]_vars

\* further positions the callers start from
FEN_more ==
    [ \* "1n2k3/P7/8/8/8/8/8/4K3 w - - 0 1"
      promotion |->
        << "1", "n", "2", "k", "3", "/", "P", "7", "/", "8", "/", "8",
           "/", "8", "/", "8", "/", "8", "/", "4", "K", "3", " ", "w",
           " ", "-", " ", "-", " ", "0", " ", "1" >>,
      \* "7k/5Q2/6K1/8/8/8/8/8 w - - 0 1"
      queen_endgame |->
        << "7", "k", "/", "5", "Q", "2", "/", "6", "K", "1", "/", "8",
           "/", "8", "/", "8", "/", "8", "/", "8", " ", "w", " ", "-",
           " ", "-", " ", "0", " ", "1" >>,
      \* "6k1/8/8/8/8/8/8/6K1 w - - 0 1"
      bare_kings |->
        << "6", "k", "1", "/", "8", "/", "8", "/", "8", "/", "8", "/",
           "8", "/", "8", "/", "6", "K", "1", " ", "w", " ", "-", " ",
           "-", " ", "0", " ", "1" >>,
      \* "k1b5/1p1p4/1P1P4/8/8/1p1p1p2/1P1PpP2/K1BbB3 b - - 0 1"
      locked_pawns |->
        << "k", "1", "b", "5", "/", "1", "p", "1", "p", "4", "/", "1",
           "P", "1", "P", "4", "/", "8", "/", "8", "/", "1", "p", "1",
           "p", "1", "p", "2", "/", "1", "P", "1", "P", "p", "P", "2",
           "/", "K", "1", "B", "b", "B", "3", " ", "b", " ", "-", " ",
           "-", " ", "0", " ", "1" >> ]

(***************************************************************************)
(* chess_perftree/src/main.rs: make_move_sequence                          *)
(***************************************************************************)
\* format!("{}{}", self.from(), self.to()) == string
matches_perft_string(m, string) ==
    Square_to_string(m.from) \o Square_to_string(m.to) = string

\* the number of move strings make_move_sequence is given
MaxMoveStrings == 3

\* the move strings a user writes for the moves of a ply: source and target, and
\* for a promotion the letter of the piece as well ("a7b8Q"); and one that names
\* no move
MoveStrings(ply) ==
    { Square_to_string(m.from) \o Square_to_string(m.to) : m \in Range(ply) }
    \cup { Square_to_string(m.from) \o Square_to_string(m.to)
              \o <<LetterOfPiece[as_promotion(m.code)]>> :
           m \in {x \in Range(ply) : as_promotion(x.code) # NoPiece} }
    \cup { <<"a", "1", "a", "1">> }

\* one turn of the loop of make_move_sequence: the moves of the position go into
\* a new MoveList, the first one that matches the string is made; without a match
\* the process panics ("Move not found").  found_move is <<>> for None.
MakeMoveSequence ==
    /\ ~aborted
    /\ Len(made) < depth
    /\ \E list \in {pseudo_legal_moves_into(position.state.state, new_ply(MoveList_new))} :
       \E ply \in {current_ply(list)} :
       \E string \in MoveStrings(ply) :
          LET found == SelectSeq(ply, LAMBDA m2 : matches_perft_string(m2, string))
          IN IF found = <<>>
             THEN /\ aborted' = TRUE
                  /\ call' = [op |-> "make_move_sequence", string |-> string,
                              ply |-> ply, found_move |-> <<>>]
                  /\ UNCHANGED <<position, made>>
             ELSE /\ position' = make(position, Head(found))
                  /\ made' = Append(made, Head(found))
                  /\ call' = [op |-> "make_move_sequence", string |-> string,
                              ply |-> ply, found_move |-> <<Head(found)>>]
                  /\ UNCHANGED aborted
    /\ UNCHANGED <<engine, root, depth, move_list, opened, stride, perftVars>>

InitMoveString ==
    /\ root \in {"promotion"}
    /\ position = Position_from_fen(FEN_more[root])
    /\ made = <<>>
    /\ aborted = FALSE
    /\ depth = MaxMoveStrings
    /\ InitRest

NextMoveString == MakeMoveSequence

SpecMoveString == InitMoveString /\ [][NextMoveString]_vars

(***************************************************************************)
(* mcts/mod.rs: rollout                                                    *)
(***************************************************************************)
\* the number of moves a rollout is followed for
MaxRollout == 3

\* rollout(pos): the position is cloned
RolloutEntry ==
    /\ ~aborted
    /\ stack = <<>>
    /\ call.op = NoCall.op /\ call.ret = NoCall.ret
    /\ stack' = <<[pc |-> "rollout", pos |-> position, plies |-> 0, limit |-> MaxRollout]>>
    /\ UNCHANGED <<engine, positionVars, listVars, nodes, aborted>>

\* one turn of the loop of rollout, and white_score of the final position when
\* the loop ends
RolloutLoop ==
    /\ ~aborted
    /\ stack # <<>>
    /\ top.pc = "rollout"
    /\ \E moves \in {rollout_policy(top.pos)} :
          IF moves # {} /\ ~insufficient_material(top.pos.state.state)
          THEN /\ top.plies < top.limit
               /\ \E m \in moves :
                     stack' = Append(Pop, [top EXCEPT !.pos = make(top.pos, m),
                                                      !.plies = @ + 1])
               /\ UNCHANGED call
          ELSE /\ call' = [op |-> "rollout", pos |-> top.pos, ret |-> white_score(top.pos)]
               /\ stack' = Pop
    /\ UNCHANGED <<engine, positionVars, move_list, opened, stride, nodes, aborted>>

InitRollout ==
    /\ root \in {"queen_endgame"}
    /\ position = Position_from_fen(FEN_more[root])
    /\ made = <<>>
    /\ aborted = FALSE
    /\ depth = 0
    /\ InitRest

NextRollout ==
    \/ RolloutEntry
    \/ RolloutLoop

SpecRollout == InitRollout /\ [][NextRollout]_vars

(***************************************************************************)
(* position.rs: callers that pair make and unmake, and one that does not    *)
(***************************************************************************)
\* unmake(m) although no make is outstanding: self.stack.pop().unwrap()
UnmakeUnmatched(m) ==
    /\ ~aborted
    /\ made = <<>>
    /\ IF unmake_panics(position, m)
       THEN /\ aborted' = TRUE
            /\ call' = [op |-> "unmake", ret |-> "panic"]
            /\ UNCHANGED position
       ELSE /\ position' = unmake(position, m)
            /\ call' = [op |-> "unmake", ret |-> "ok"]
            /\ UNCHANGED aborted
    /\ UNCHANGED <<engine, root, made, depth, move_list, opened, stride, perftVars>>

NextStack ==
    \/ \E m \in Children : Make(m)
    \/ Unmake
    \/ \E m \in Children : UnmakeUnmatched(m)

\* the callers go two makes deep
StackDepth == 2

InitStack ==
    /\ root \in {"position_2", "rooks_and_kings"}
    /\ position = Position_from_fen(FEN[root])
    /\ made = <<>>
    /\ aborted = FALSE
    /\ depth = StackDepth
    /\ InitRest

SpecStack == InitStack /\ [][NextStack]_vars

(***************************************************************************)
(* move_generator.rs: rank_file_moves of a rook on d4                      *)
(***************************************************************************)
\* the pieces put on d7, d2 and, beyond them, on d8 and d1
Placed == {"Pawn", "Knight", "Bishop", "Rook", "Queen"}

Beyond == {"None", "Knight"}

\* the bare kings with a rook of `color` on d4, an enemy piece on d7, a friendly
\* piece on d2 and possibly an enemy piece on d8 and a friendly piece on d1;
\* `color` is to move
RookOnD4(color, enemy, friend, d8, d1) ==
    LET start == Position_from_fen(FEN_more["bare_kings"]).state
        a == add_piece(start, Square_new(3, 3), "Rook", color)
        b == add_piece(a, Square_new(6, 3), enemy, Not(color))
        c == add_piece(b, Square_new(1, 3), friend, color)
        d == IF d8 = "None" THEN c ELSE add_piece(c, Square_new(7, 3), d8, Not(color))
        e == IF d1 = "None" THEN d ELSE add_piece(d, Square_new(0, 3), d1, color)
    IN Position_new(IF color = "White" THEN e ELSE toggle_color(e))

\* MoveGenerator::rank_file_moves(Rook) writes the moves of the rooks
RankFileMoves ==
    /\ ~aborted
    /\ call.op = NoCall.op /\ call.ret = NoCall.ret
    /\ call' = [op |-> "rank_file_moves", ret |-> rank_file_moves(position.state.state, "Rook")]
    /\ UNCHANGED <<engine, positionVars, perftVars, move_list, opened, stride, aborted>>

InitRook ==
    /\ root = "bare_kings"
    /\ \E color \in {"White", "Black"}, enemy \in Placed, friend \in Placed,
          d8 \in Beyond, d1 \in Beyond :
          position = RookOnD4(color, enemy, friend, d8, d1)
    /\ made = <<>>
    /\ aborted = FALSE
    /\ depth = 0
    /\ InitRest

NextRook == RankFileMoves

SpecRook == InitRook /\ [][NextRook]_vars

(***************************************************************************)
(* mcts/mod.rs: MctsEngine::select and MctsEngine::playout.  The frames of *)
(* the stack: "select" is the loop of select, "playout" an activation of   *)
(* playout at its first test, "made" one that waits for its recursive      *)
(* call, "return" one that returns its score, "rollout" the rollout of     *)
(* evaluate                                                                *)
(***************************************************************************)
\* the number of playouts select runs before its deadline
MaxPlayouts == 42

\* the number of nested activations of playout
MaxPlayoutDepth == 6

\* the number of moves the rollout of evaluate is followed for
MaxEvaluate == 6

\* select(pos, deadline) is called
Select ==
    /\ ~aborted
    /\ stack = <<>>
    /\ call.op = NoCall.op /\ call.ret = NoCall.ret
    /\ stack' = <<[pc |-> "select", entry |-> position, playouts |-> 0]>>
    /\ UNCHANGED <<engine, positionVars, listVars, nodes, aborted>>

\* curr_time < deadline: the next playout starts
SelectPlayout ==
    /\ ~aborted
    /\ stack # <<>>
    /\ top.pc = "select"
    /\ top.playouts < MaxPlayouts
    /\ stack' = <<[top EXCEPT !.playouts = @ + 1], [pc |-> "playout"]>>
    /\ call' = NoCall
    /\ UNCHANGED <<engine, positionVars, move_list, opened, stride, nodes, aborted>>

\* the deadline has passed: self.nodes.get(&pos.state).unwrap().get_best_action()
SelectReturn ==
    /\ ~aborted
    /\ stack # <<>>
    /\ top.pc = "select"
    /\ IF contains_key(engine.nodes, position)
       THEN /\ call' = [op |-> "select", entry |-> top.entry, playouts |-> top.playouts,
                        ret |-> get_best_action(engine.nodes[key_of(position)])]
            /\ UNCHANGED aborted
       ELSE /\ call' = [op |-> "select", entry |-> top.entry, playouts |-> top.playouts,
                        ret |-> <<>>]
            /\ aborted' = TRUE
    /\ stack' = <<>>
    /\ UNCHANGED <<engine, positionVars, move_list, opened, stride, nodes>>

\* playout: the position is not in the table; evaluate calls rollout on a clone
Evaluate ==
    /\ ~aborted
    /\ stack # <<>>
    /\ top.pc = "playout"
    /\ call.op # "rollout"
    /\ ~contains_key(engine.nodes, position)
    /\ stack' = Append(stack, [pc |-> "rollout", pos |-> position, plies |-> 0,
                               limit |-> MaxEvaluate])
    /\ UNCHANGED <<engine, positionVars, listVars, nodes, aborted>>

\* ... and the node of the position is inserted with the eval of the rollout
PlayoutInsert ==
    /\ ~aborted
    /\ stack # <<>>
    /\ top.pc = "playout"
    /\ call.op = "rollout"
    /\ engine' = [engine EXCEPT !.nodes =
                     HashMap_insert(@, position, Node_init(position, call.ret))]
    /\ stack' = Append(Pop, [pc |-> "return", score |-> call.ret])
    /\ call' = NoCall
    /\ UNCHANGED <<positionVars, move_list, opened, stride, nodes, aborted>>

\* playout: the position is in the table and select_ucb1 returns a move; it is
\* made and playout calls itself
Descend ==
    /\ ~aborted
    /\ stack # <<>>
    /\ top.pc = "playout"
    /\ contains_key(engine.nodes, position)
    /\ Len(stack) < 2 * MaxPlayoutDepth
    /\ \E m \in select_ucb1(engine, position) :
          /\ position' = make(position, m)
          /\ made' = Append(made, m)
          /\ stack' = Pop \o << [pc |-> "made", m |-> m, key |-> key_of(position)],
                                [pc |-> "playout"] >>
    /\ UNCHANGED <<engine, root, depth, listVars, nodes, aborted>>

\* playout: the position is in the table and has no legal move
Leaf ==
    /\ ~aborted
    /\ stack # <<>>
    /\ top.pc = "playout"
    /\ contains_key(engine.nodes, position)
    /\ select_ucb1(engine, position) = {}
    /\ stack' = Append(Pop, [pc |-> "return", score |-> engine.nodes[key_of(position)].eval])
    /\ UNCHANGED <<engine, positionVars, listVars, nodes, aborted>>

\* an activation returns: to the activation that called it, which unmakes its
\* move and updates its node, or to select
Return ==
    /\ ~aborted
    /\ Len(stack) >= 2
    /\ top.pc = "return"
    /\ LET caller == stack[Len(stack) - 1]
       IN IF caller.pc = "made"
          THEN \E pos \in {unmake(position, caller.m)} :
               \E updated \in {update_eval(engine, pos, caller.m, top.score)} :
                  /\ position' = pos
                  /\ made' = SubSeq(made, 1, Len(made) - 1)
                  /\ engine' = updated
                  /\ stack' = SubSeq(stack, 1, Len(stack) - 2)
                                 \o <<[pc |-> "return", score |-> updated.nodes[key_of(pos)].eval]>>
                  /\ UNCHANGED call
          ELSE /\ stack' = Pop
               /\ call' = [op |-> "playout", ret |-> top.score]
               /\ UNCHANGED <<engine, position, made>>
    /\ UNCHANGED <<root, depth, move_list, opened, stride, nodes, aborted>>

InitMcts ==
    /\ root \in {"locked_pawns", "bare_kings"}
    /\ position = Position_from_fen(FEN_more[root])
    /\ made = <<>>
    /\ aborted = FALSE
    /\ depth = 0
    /\ InitRest

NextMcts ==
    \/ Select
    \/ SelectPlayout
    \/ SelectReturn
    \/ Evaluate
    \/ RolloutLoop
    \/ PlayoutInsert
    \/ Descend
    \/ Leaf
    \/ Return

SpecMcts == InitMcts /\ [][NextMcts]_vars

(***************************************************************************)
(* chess_engines/src/alpha_beta/search.rs: iterative_deepen, search,       *)
(* alpha_beta_search and quiesce.  The stack holds the activations of      *)
(* alpha_beta_search and quiesce above the one of search; an activation    *)
(* works on a copy of the pv vector it was given and hands it back when it *)
(* returns, and records the position and the counts of the MoveList it     *)
(* started with.  A "return" entry is an activation that has returned.     *)
(***************************************************************************)
\* "6k1/8/4bn2/3p4/4P3/1BN5/8/6K1 w - - 0 1"
FEN_exchange ==
    << "6", "k", "1", "/", "8", "/", "4", "b", "n", "2", "/", "3",
       "p", "4", "/", "4", "P", "3", "/", "1", "B", "N", "5", "/",
       "8", "/", "6", "K", "1", " ", "w", " ", "-", " ", "-", " ",
       "0", " ", "1" >>

\* the last max_depth iterative_deepen reaches before its time is over
MaxSearchDepth == 2

\* the positions searched: a FEN, the moves made from it before the search, the
\* max_depth the context is created with and the last max_depth iterated
SearchCases ==
    { [root |-> "rook_endgame", fen |-> FEN_rook_endgame,
       moves |-> <<Move_new(7, 15, "QuietMove"), Move_new(60, 51, "QuietMove")>>,
       max_depth |-> 1, last |-> MaxSearchDepth],
      [root |-> "queen_endgame", fen |-> FEN_more.queen_endgame,
       moves |-> <<>>, max_depth |-> 2, last |-> MaxSearchDepth],
      [root |-> "exchange", fen |-> FEN_exchange,
       moves |-> <<>>, max_depth |-> 1, last |-> MaxSearchDepth - 1] }

RECURSIVE make_all(_, _, _)
make_all(pos, moves, i) ==
    IF i > Len(moves) THEN pos
    ELSE CHOOSE out \in { make_all(after, moves, i + 1) : after \in {make(pos, moves[i])} } :
            TRUE

\* a loop that breaks on every score
beta_cutoff_always(score, beta) == TRUE

\* if score >= beta { break; } in both loops, and the stand-pat return of quiesce
beta_cutoff(score, beta) == score >= beta

\* the search runs for comparison with its cutoffs taken out: plain negamax
Plain == stack # <<>> /\ stack[1].fn = "plain_search"

\* an activation that has not run yet; `tried` lists the moves it has made
SearchCall(fn, alpha, beta, d, pv) ==
    [ fn |-> fn, pc |-> "entry", alpha |-> alpha, beta |-> beta, depth |-> d, pv |-> pv,
      ply_number |-> 0, ply_size |-> 0, i |-> 0, m |-> Move_zero,
      static_score |-> 0, best_score |-> MIN_SCORE, best_move |-> <<>>, line |-> <<>>,
      broke |-> FALSE, tried |-> <<>>, entry |-> position, plies |-> 0, total |-> 0 ]

\* an activation that has returned score by the exit path `exit`
Returned(frame, exit, score, pv) ==
    [ fn |-> frame.fn, pc |-> "return", exit |-> exit, ret |-> score, pv |-> pv,
      depth |-> frame.depth, beta |-> frame.beta, tried |-> frame.tried,
      entry |-> frame.entry, plies |-> frame.plies, total |-> frame.total ]

\* the activation on top with the position and the MoveList it starts with
Started == [top EXCEPT !.entry = position,
                       !.plies = ply_number(move_list),
                       !.total = move_list.total_count]

\* one iteration of iterative_deepen starts: search(prev_pv) calls alpha_beta_search
Search ==
    /\ ~aborted
    /\ stack = <<>>
    /\ engine.max_depth <= depth
    /\ engine' = [engine EXCEPT !.prev_pv = engine.pv]
    /\ stack' = << [fn |-> "search", pc |-> "called"],
                   SearchCall("alpha_beta_search", MIN_SCORE, MAX_SCORE, 0, <<>>) >>
    /\ call' = NoCall
    /\ UNCHANGED <<positionVars, move_list, opened, stride, nodes, aborted>>

\* ... and ends: iterative_deepen keeps the pv and adds one to max_depth
SearchReturn ==
    /\ ~aborted
    /\ Len(stack) = 2
    /\ stack[1].fn = "search"
    /\ top.pc = "return"
    /\ engine' = [engine EXCEPT !.pv = top.pv, !.max_depth = @ + 1]
    /\ call' = [op |-> "search", ret |-> top.ret, pv |-> top.pv]
    /\ stack' = <<>>
    /\ UNCHANGED <<positionVars, move_list, opened, stride, nodes, aborted>>

\* alpha_beta_search starts: at max_depth it hands over to quiesce, otherwise the
\* ordered moves of the position go into a new ply
AlphaBetaEntry ==
    /\ ~aborted
    /\ stack # <<>>
    /\ top.fn = "alpha_beta_search" /\ top.pc = "entry"
    /\ IF top.depth = engine.max_depth
       THEN /\ stack' = Pop \o << [Started EXCEPT !.pc = "tail"],
                                  SearchCall("quiesce", top.alpha, top.beta, top.depth, top.pv) >>
            /\ UNCHANGED <<engine, move_list>>
       ELSE \E popped \in {Vec_pop(engine.prev_pv)} :
            \E list \in {add_moves_to_list(position, move_list, popped.ret)} :
               /\ engine' = [engine EXCEPT !.prev_pv = popped.vec]
               /\ move_list' = list
               /\ stack' = Append(Pop, [Started EXCEPT
                                           !.pc = "loop",
                                           !.ply_number = ply_number(list),
                                           !.ply_size = ply_size(list, ply_number(list))])
    /\ UNCHANGED <<positionVars, call, opened, stride, nodes, aborted>>

\* the quiesce alpha_beta_search handed over to has returned: so does alpha_beta_search
AlphaBetaTail ==
    /\ ~aborted
    /\ Len(stack) >= 2
    /\ top.pc = "return"
    /\ stack[Len(stack) - 1].pc = "tail"
    /\ stack' = SubSeq(stack, 1, Len(stack) - 2)
                   \o <<Returned(stack[Len(stack) - 1], top.exit, top.ret, top.pv)>>
    /\ UNCHANGED <<engine, positionVars, listVars, nodes, aborted>>

\* one turn of the loop of alpha_beta_search or of quiesce: quiesce passes over a
\* quiet move; the move is made; when it was legal the function calls itself
\* with the negated window, otherwise the move is unmade at once
SearchLoop ==
    /\ ~aborted
    /\ stack # <<>>
    /\ top.fn \in {"alpha_beta_search", "quiesce"} /\ top.pc = "loop"
    /\ top.i < top.ply_size /\ ~top.broke
    /\ \E mv \in {MoveList_move(move_list, top.ply_number, top.i)} :
          IF top.fn = "quiesce" /\ is_quiet(mv.code)
          THEN /\ stack' = [stack EXCEPT ![Len(stack)].i = @ + 1]
               /\ UNCHANGED <<position, made, aborted>>
          ELSE IF make_panics(position, mv)
          THEN aborted' = TRUE /\ UNCHANGED <<position, made, stack>>
          ELSE \E after \in {make(position, mv)} :
                  /\ IF was_move_legal(after.state.state)
                     THEN /\ position' = after
                          /\ made' = Append(made, mv)
                          /\ stack' = Pop \o
                                << [top EXCEPT !.pc = "called", !.m = mv,
                                                   !.tried = Append(@, mv)],
                                   SearchCall(top.fn, -top.beta, -top.alpha, top.depth + 1,
                                              top.line) >>
                     ELSE /\ position' = unmake(after, mv)
                          /\ stack' = [stack EXCEPT ![Len(stack)].i = @ + 1,
                                                    ![Len(stack)].tried = Append(@, mv)]
                          /\ UNCHANGED made
                  /\ UNCHANGED aborted
    /\ UNCHANGED <<engine, root, depth, listVars, nodes>>

\* the call of the loop has returned: the move is unmade, a better score is kept
\* and a score of beta or more ends the loop
SearchScore ==
    /\ ~aborted
    /\ Len(stack) >= 2
    /\ top.pc = "return"
    /\ stack[Len(stack) - 1].pc = "called"
    /\ stack[Len(stack) - 1].fn \in {"alpha_beta_search", "quiesce"}
    /\ LET caller == stack[Len(stack) - 1]
           score == -top.ret
           better == score > caller.best_score
           raised == better /\ score > caller.alpha
           cut == ~Plain /\ beta_cutoff(score, caller.beta)
       IN IF unmake_panics(position, caller.m)
          THEN aborted' = TRUE /\ UNCHANGED <<position, made, stack>>
          ELSE /\ position' = unmake(position, caller.m)
               /\ made' = SubSeq(made, 1, Len(made) - 1)
               /\ stack' = SubSeq(stack, 1, Len(stack) - 2) \o
                    << [caller EXCEPT
                          !.line = top.pv,
                          !.best_score = IF better THEN score ELSE @,
                          !.best_move = IF better THEN <<caller.m>> ELSE @,
                          !.alpha = IF raised THEN score ELSE @,
                          !.pv = IF raised THEN Append(top.pv, caller.m) ELSE @,
                          !.pc = "loop",
                          !.i = IF cut THEN @ ELSE @ + 1,
                          !.broke = cut] >>
               /\ UNCHANGED aborted
    /\ UNCHANGED <<engine, root, depth, listVars, nodes>>

\* the loop of alpha_beta_search is over: the ply is dropped; the best move goes
\* into the transposition table, and without one the score is the evaluation
AlphaBetaReturn ==
    /\ ~aborted
    /\ stack # <<>>
    /\ top.fn = "alpha_beta_search" /\ top.pc = "loop"
    /\ top.i >= top.ply_size \/ top.broke
    /\ \E list \in {drop_current_ply(move_list)} :
          IF top.best_move # <<>>
          THEN /\ move_list' = list
               /\ engine' = [engine EXCEPT !.transpos =
                                TranspositionTable_store(@,
                                    [hash |-> get_hash(position.state), depth |-> top.depth,
                                     score |-> top.best_score, best_move |-> top.best_move[1]])]
               /\ stack' = Append(Pop, Returned(top, IF top.broke THEN "cutoff" ELSE "best",
                                                top.best_score, top.pv))
               /\ UNCHANGED position
          ELSE \E ev \in {evaluate(position, list)} :
                  /\ move_list' = ev.move_list
                  /\ position' = ev.position
                  /\ stack' = Append(Pop, Returned(top, "no_move", ev.ret, top.pv))
                  /\ UNCHANGED engine
    /\ UNCHANGED <<root, made, depth, call, opened, stride, nodes, aborted>>

\* quiesce starts: past the depth cap it returns the evaluation; otherwise the
\* ordered moves go into a new ply and the evaluation is the stand-pat score,
\* returned at once when it is beta or more
QuiesceEntry ==
    /\ ~aborted
    /\ stack # <<>>
    /\ top.fn = "quiesce" /\ top.pc = "entry"
    /\ \E capped \in {top.depth >= engine.max_depth + 4} :
       \E popped \in {Vec_pop(engine.prev_pv)} :
       \E list \in {IF capped THEN move_list
                     ELSE add_moves_to_list(position, move_list, popped.ret)} :
       \E ev \in {evaluate(position, list)} :
          IF capped
          THEN /\ position' = ev.position
               /\ move_list' = ev.move_list
               /\ stack' = Append(Pop, Returned(Started, "depth_cap", ev.ret, <<>>))
               /\ UNCHANGED engine
          ELSE /\ engine' = [engine EXCEPT !.prev_pv = popped.vec]
               /\ position' = ev.position
               /\ IF ~Plain /\ beta_cutoff(ev.ret, top.beta)
                  THEN /\ move_list' = drop_current_ply(ev.move_list)
                       /\ stack' = Append(Pop, Returned(Started, "stand_pat", ev.ret, <<>>))
                  ELSE /\ move_list' = ev.move_list
                       /\ stack' = Append(Pop, [Started EXCEPT
                                      !.pc = "loop",
                                      !.ply_number = ply_number(list),
                                      !.ply_size = ply_size(list, ply_number(list)),
                                      !.static_score = ev.ret,
                                      !.best_score = ev.ret,
                                      !.alpha = IF ev.ret > top.alpha THEN ev.ret ELSE @])
    /\ UNCHANGED <<root, made, depth, call, opened, stride, nodes, aborted>>

\* the loop of quiesce is over: the ply is dropped; the best move goes into the
\* transposition table, and without one the score is the stand-pat score
QuiesceReturn ==
    /\ ~aborted
    /\ stack # <<>>
    /\ top.fn = "quiesce" /\ top.pc = "loop"
    /\ top.i >= top.ply_size \/ top.broke
    /\ move_list' = drop_current_ply(move_list)
    /\ IF top.best_move # <<>>
       THEN /\ engine' = [engine EXCEPT !.transpos =
                             TranspositionTable_store(@,
                                 [hash |-> get_hash(position.state), depth |-> 0,
                                  score |-> top.best_score, best_move |-> top.best_move[1]])]
            /\ stack' = Append(Pop, Returned(top, IF top.broke THEN "cutoff" ELSE "best",
                                             top.best_score, top.pv))
       ELSE /\ stack' = Append(Pop, Returned(top, "no_move", top.static_score, <<>>))
            /\ UNCHANGED engine
    /\ UNCHANGED <<positionVars, call, opened, stride, nodes, aborted>>

InitSearch ==
    /\ \E c \in SearchCases :
       \E start \in {Position_from_fen(c.fen)} :
          /\ root = c.root
          /\ position = make_all(start, c.moves, 1)
          /\ made = c.moves
          /\ depth = c.last
          /\ engine = SearchContext_new(c.max_depth)
    /\ aborted = FALSE
    /\ move_list = MoveList_new
    /\ call = NoCall
    /\ opened = <<>>
    /\ stride = 0
    /\ stack = <<>>
    /\ nodes = 0

NextSearch ==
    \/ Search
    \/ SearchReturn
    \/ AlphaBetaEntry
    \/ AlphaBetaTail
    \/ SearchLoop
    \/ SearchScore
    \/ AlphaBetaReturn
    \/ QuiesceEntry
    \/ QuiesceReturn

SpecSearch == InitSearch /\ [][NextSearch]_vars

(***************************************************************************)
(* move_generator.rs: State::is_square_attacked on the starting position   *)
(***************************************************************************)
\* State::is_square_attacked(square, attacking_color) is asked about one square
IsSquareAttacked ==
    /\ ~aborted
    /\ call.op = NoCall.op /\ call.ret = NoCall.ret
    /\ \E square \in Squares, attacking_color \in {"White", "Black"} :
          call' = [op |-> "is_square_attacked",
                   square |-> square,
                   attacking_color |-> attacking_color,
                   ret |-> is_square_attacked(position.state.state, square, attacking_color)]
    /\ UNCHANGED <<engine, positionVars, perftVars, move_list, opened, stride, aborted>>

\* Position::default(): the standard starting position
InitAttack ==
    /\ root = "initial"
    /\ position = Position_from_fen(FEN_initial)
    /\ made = <<>>
    /\ aborted = FALSE
    /\ depth = 0
    /\ InitRest

NextAttack == IsSquareAttacked

SpecAttack == InitAttack /\ [][NextAttack]_vars

(***************************************************************************)
(* simple_eval.rs: the isolated-pawn term of the evaluation                *)
(***************************************************************************)
\* the squares the pawns of the evaluated positions are drawn from: doubled
\* pawns on the a-file and the d-file for White and on the c-file for Black
WhitePawnSquares ==
    { Square_new(1, 0), Square_new(2, 0), Square_new(1, 1),
      Square_new(1, 3), Square_new(2, 3), Square_new(1, 7) }

BlackPawnSquares ==
    { Square_new(6, 0), Square_new(6, 2), Square_new(5, 2),
      Square_new(6, 3), Square_new(6, 7) }

RECURSIVE add_pawns(_, _, _)
add_pawns(hs, squares, color) ==
    IF squares = {} THEN hs
    ELSE LET square == get_first_square(squares)
         IN add_pawns(add_piece(hs, square, "Pawn", color), squares \ {square}, color)

\* the bare kings with the given pawns; `color` is to move
WithPawns(white, black, color) ==
    LET start == Position_from_fen(FEN_more["bare_kings"]).state
        placed == add_pawns(add_pawns(start, white, "White"), black, "Black")
    IN Position_new(IF color = "White" THEN placed ELSE toggle_color(placed))

\* test_isolated_pawn_evaluation: eval.isolated_pawn_number() * ISOLATED_PAWN_COEF
IsolatedPawnScore ==
    /\ ~aborted
    /\ call.op = NoCall.op /\ call.ret = NoCall.ret
    /\ call' = [op |-> "isolated_pawn_number",
                ret |-> isolated_pawn_number(position.state.state) * ISOLATED_PAWN_COEF]
    /\ UNCHANGED <<engine, positionVars, perftVars, move_list, opened, stride, aborted>>

InitPawns ==
    /\ root = "bare_kings"
    /\ \E white \in SUBSET WhitePawnSquares, black \in SUBSET BlackPawnSquares,
          color \in {"White", "Black"} :
          position = WithPawns(white, black, color)
    /\ made = <<>>
    /\ aborted = FALSE
    /\ depth = 0
    /\ InitRest

NextPawns == IsolatedPawnScore

SpecPawns == InitPawns /\ [][NextPawns]_vars

(***************************************************************************)
(* move/mod.rs: MoveList::order_ply on the frames a caller has filled      *)
(***************************************************************************)
\* the moves the ordering caller inserts: two quiet codes and three loud ones
OrderMoves ==
    { Move_new(0, 4, "QuietMove"),
      Move_new(4, 6, "KingCastle"), Move_new(0, 5, "Capture"),
      Move_new(32, 41, "EnPassant"), Move_new(48, 56, "QueenPromotion") }

\* MoveList::order_ply(first): current_ply_mut asserts that a ply is open
OrderPly ==
    /\ ~aborted
    /\ \E first \in {<<>>} \cup { <<m>> : m \in OrderMoves } :
          IF current_ply_panics(move_list) THEN Panic("order_ply")
          ELSE /\ move_list' = order_ply(move_list, first)
               /\ call' = [op |-> "order_ply", ret |-> "ok",
                           first |-> first, before |-> move_list]
               /\ UNCHANGED <<opened, aborted>>
    /\ UNCHANGED <<engine, positionVars, perftVars, stride>>

InitOrder == InitList

\* the caller fills its frames, orders the top one and reads it
\* (add_moves_to_list: new_ply, the inserts of pseudo_legal_moves, order_ply)
NextOrder ==
    \/ call.op # "order_ply" /\ NewPly
    \/ call.op # "order_ply" /\ \E m \in OrderMoves : Insert(m)
    \/ call.op # "order_ply" /\ OrderPly

SpecOrder == InitOrder /\ [][NextOrder]_vars

(***************************************************************************)
(* mcts/mod.rs: MctsEngine::select_ucb1 at a node of the table             *)
(***************************************************************************)
\* what an out-edge of the node can hold: no visit, or one or two visits with
\* the evaluation of a lost or a won playout
EdgeStates ==
    {[visits |-> 0, eval |-> 0]}
        \cup [visits : {1, 2}, eval : {0, One}]

\* the sum of the visits of the first i edges
RECURSIVE sum_visits(_, _)
sum_visits(out_edges, i) ==
    IF i = 0 THEN 0 ELSE out_edges[i].visits + sum_visits(out_edges, i - 1)

\* the node `fresh` of Node::init after the playouts that left its out-edges in
\* the given states: update_eval has counted every visit and folded the evaluations
NodeWith(fresh, states) ==
    CHOOSE node \in
        { [ count |-> 1 + sum_visits(out_edges, Len(out_edges)),
            out_edges |-> out_edges,
            initial_eval |-> fresh.initial_eval,
            eval |-> fresh.initial_eval \div (1 + sum_visits(out_edges, Len(out_edges)))
                        + fold_evals(out_edges, 1 + sum_visits(out_edges, Len(out_edges)),
                                     Len(out_edges)) ] :
          out_edges \in { [i \in 1..Len(fresh.out_edges) |->
                             [fresh.out_edges[i] EXCEPT !.visits = states[i].visits,
                                                        !.eval = states[i].eval]] } } : TRUE

\* playout: self.select_ucb1(pos.clone())
SelectUcb1 ==
    /\ ~aborted
    /\ call.op = NoCall.op /\ call.ret = NoCall.ret
    /\ call' = [op |-> "select_ucb1", ret |-> select_ucb1(engine, position)]
    /\ UNCHANGED <<engine, positionVars, perftVars, move_list, opened, stride, aborted>>

\* the bare kings, either side to move, with the node of the position in the
\* table of an engine without or with exploration
InitUcb ==
    /\ root = "bare_kings"
    /\ \E color \in {"White", "Black"} :
       \E start \in {Position_from_fen(FEN_more[root]).state} :
       \E pos \in {Position_new(IF color = "White" THEN start ELSE toggle_color(start))} :
       \E fresh \in {Node_init(pos, One \div 2)} :
       \E states \in [1..Len(fresh.out_edges) -> EdgeStates] :
       \E exploration_weight \in {0, One} :
          /\ position = pos
          /\ engine = [MctsEngine_new EXCEPT
                          !.nodes = HashMap_insert(@, pos, NodeWith(fresh, states)),
                          !.exploration_weight = exploration_weight]
    /\ made = <<>>
    /\ aborted = FALSE
    /\ depth = 0
    /\ move_list = MoveList_new
    /\ call = NoCall
    /\ opened = <<>>
    /\ stride = 0
    /\ stack = <<>>
    /\ nodes = 0

NextUcb == SelectUcb1

SpecUcb == InitUcb /\ [][NextUcb]_vars

(***************************************************************************)
(* Reference notions the properties are stated with                        *)
(***************************************************************************)
Abs(n) == IF n < 0 THEN -n ELSE n

Occupied(state) == union(state.boards["White"]) \cup union(state.boards["Black"])

\* the squares strictly between two squares of one rank, file or diagonal
Between(a, b) ==
    { s \in Squares :
        /\ s # a /\ s # b
        /\ \/ rank(a) = rank(b) /\ rank(s) = rank(a)
           \/ file(a) = file(b) /\ file(s) = file(a)
           \/ /\ Abs(rank(a) - rank(b)) = Abs(file(a) - file(b))
              /\ Abs(rank(a) - rank(s)) = Abs(file(a) - file(s))
              /\ (rank(a) - rank(s)) * (file(b) - file(s)) = (rank(b) - rank(s)) * (file(a) - file(s))
        /\ (rank(a) - rank(s)) * (rank(b) - rank(s)) <= 0
        /\ (file(a) - file(s)) * (file(b) - file(s)) <= 0 }

\* the rules of chess: a piece of `color` on some square attacks `target`
AttackedBy(state, target, color) ==
    LET b == state.boards[color]
        dr(s) == rank(target) - rank(s)
        df(s) == file(target) - file(s)
        clear(s) == Between(s, target) \cap Occupied(state) = {}
    IN \E s \in Squares \ {target} :
        \/ s \in b["Knight"] /\ {Abs(dr(s)), Abs(df(s))} = {1, 2}
        \/ s \in b["King"] /\ Abs(dr(s)) <= 1 /\ Abs(df(s)) <= 1
        \/ s \in b["Pawn"] /\ Abs(df(s)) = 1 /\ dr(s) = (IF color = "White" THEN 1 ELSE -1)
        \/ s \in b["Rook"] \cup b["Queen"] /\ (dr(s) = 0 \/ df(s) = 0) /\ clear(s)
        \/ s \in b["Bishop"] \cup b["Queen"] /\ Abs(dr(s)) = Abs(df(s)) /\ clear(s)

\* the square the king of `color` stands on
KingSquare(state, color) == CHOOSE s \in state.boards[color]["King"] : TRUE

\* no square holds two pieces
NoOverlap(state) ==
    \A c1, c2 \in {"White", "Black"} : \A p1, p2 \in PieceTypes :
        (c1 # c2 \/ p1 # p2) => state.boards[c1][p1] \cap state.boards[c2][p2] = {}

current == position.state.state

\* the side that made the last of the moves in `made`
Mover ==
    LET first == Position_from_fen(FEN[root]).state.state.flags.active_color
    IN IF Len(made) % 2 = 1 THEN first ELSE Not(first)

\* every move made so far passed the legality filter
LegalSoFar == made = <<>> \/ was_move_legal(current)

(***************************************************************************)
(* Properties of make / unmake and of the incremental hash                 *)
(***************************************************************************)

\* C1: at every position reached by legal moves from a perft position, for every
\* move m that pseudo_legal_moves emits, make(m) followed by unmake(m) gives back
\* the State that was there before make (boards, en-passant mask, flags,
\* halfmove) and a hash equal to a freshly initialised hash of that State.
MakeUnmakeRestores ==
    (~aborted /\ LegalSoFar) =>
        \A m \in Range(pseudo_legal_moves(current)) :
            /\ ~make_panics(position, m)
            /\ ~unmake_panics(make(position, m), m)
            /\ LET after == unmake(make(position, m), m)
               IN /\ after.state.state = current
                  /\ get_hash(after.state) = Hasher_init(current).hash

\* C2: after any sequence of make and unmake calls on legal moves, get_hash()
\* equals the hash ZobristHasher::init computes from scratch for the current State.
HashMatchesInit ==
    (~aborted /\ LegalSoFar) => get_hash(position.state) = Hasher_init(current).hash

\* C4: is_check returns true exactly when the king of the side to move stands on
\* a square attacked by the opposite colour.
IsCheckIffKingAttacked ==
    (~aborted /\ NoOverlap(current)) =>
        (is_check(current) <=>
            AttackedBy(current, KingSquare(current, current.flags.active_color),
                       Not(current.flags.active_color)))

\* C5: after make(m), was_move_legal returns true exactly when the king of the
\* player who just moved is not on a square attacked by the player now to move;
\* that king is the inactive king, and the answer is the negation of
\* is_square_attacked of its square by the active colour.
WasMoveLegalIffMoverSafe ==
    (~aborted /\ made # <<>> /\ NoOverlap(current)) =>
        /\ Mover = Not(current.flags.active_color)
        /\ was_move_legal(current) <=>
               ~AttackedBy(current, KingSquare(current, Mover), Not(Mover))
        /\ was_move_legal(current) <=>
               ~is_square_attacked(current, KingSquare(current, Mover),
                                   current.flags.active_color)

\* C5 witness: a move has been made that left the mover's king attacked, and
\* was_move_legal says so.
IllegalMoveDetected ==
    /\ ~aborted /\ made # <<>> /\ NoOverlap(current)
    /\ AttackedBy(current, KingSquare(current, Mover), Not(Mover))
    /\ ~was_move_legal(current)

\* C6: every castling right that is still set has that colour's king on its home
\* square and the corresponding rook (h file for the king side, a file for the
\* queen side) on its home square.
CastleRightsImplyHome ==
    (~aborted /\ LegalSoFar) =>
        \A color \in {"White", "Black"} : \A side \in {"King", "Queen"} :
            castle_right(current.flags, color, side) =>
                LET back == IF color = "White" THEN 0 ELSE 56
                IN /\ back + 4 \in current.boards[color]["King"]
                   /\ back + (IF side = "King" THEN 7 ELSE 0) \in current.boards[color]["Rook"]

\* the castle moves of one side that pseudo_legal_moves emits, by position in the list
Emitted(side) ==
    LET moves == pseudo_legal_moves(current)
    IN { i \in 1..Len(moves) : moves[i].code = from_castle(side) }

\* chess: the side to move may castle on `side`
MayCastle(side) ==
    LET color == current.flags.active_color
        back == IF color = "White" THEN 0 ELSE 56
        between == IF side = "King" THEN {back + 5, back + 6}
                   ELSE {back + 1, back + 2, back + 3}
        path == IF side = "King" THEN {back + 4, back + 5, back + 6}
                ELSE {back + 4, back + 3, back + 2}
    IN /\ castle_right(current.flags, color, side)
       /\ between \cap Occupied(current) = {}
       /\ \A s \in path : ~AttackedBy(current, s, Not(color))

\* C7: pseudo_legal_moves emits a KingCastle (QueenCastle) move for the side to
\* move if and only if that side holds the right, the f and g (b, c and d) squares
\* of its back rank are unoccupied and none of the e, f, g (e, d, c) squares is
\* attacked by the opponent; the move goes from the king's home square to the g
\* (c) file.
CastleEmittedIffAllowed ==
    (~aborted /\ NoOverlap(current)) =>
        \A side \in {"King", "Queen"} :
            LET moves == pseudo_legal_moves(current)
                back == IF current.flags.active_color = "White" THEN 0 ELSE 56
            IN /\ MayCastle(side) <=> Emitted(side) # {}
               /\ Cardinality(Emitted(side)) <= 1
               /\ \A i \in Emitted(side) :
                      /\ moves[i].from = back + 4
                      /\ moves[i].to = back + (IF side = "King" THEN 6 ELSE 2)
                      /\ moves[i].code = (IF side = "King" THEN "KingCastle" ELSE "QueenCastle")

\* C7 witness: after some moves the side to move holds both rights, castles on the
\* king side and is refused the queen side
CastleOneSideOnly ==
    /\ ~aborted /\ made # <<>> /\ NoOverlap(current)
    /\ castle_right(current.flags, current.flags.active_color, "King")
    /\ castle_right(current.flags, current.flags.active_color, "Queen")
    /\ Emitted("King") # {}
    /\ Emitted("Queen") = {}

(***************************************************************************)
(* Properties of the MoveList                                              *)
(***************************************************************************)
\* the top frame holds the moves inserted into it, in insertion order, and the
\* ply number is the number of open plies
TopFrameIsInserted ==
    (~aborted /\ opened # <<>>) =>
        /\ ply_number(move_list) = Len(opened)
        /\ ~current_ply_panics(move_list)
        /\ current_ply(move_list) = opened[Len(opened)].inserted

\* a drop_current_ply gives back what the callers saw before the matching new_ply
DropRestores ==
    (DropCurrentPly /\ opened # <<>>) =>
        /\ ~aborted'
        /\ Observed(move_list') = opened[Len(opened)].before

\* C8: frames are LIFO: after new_ply, any number of inserts and drop_current_ply,
\* the ply number, the total move count and the contents and sizes of every lower
\* frame still open are what they were before the new_ply; current_ply always
\* returns the moves inserted into the top frame, in insertion order.
FramesAreLIFO == [](TopFrameIsInserted) /\ [][DropRestores]_vars

\* C8 witness: a ply holding moves has been dropped from above a ply that holds moves
DroppedNestedPly ==
    /\ ~aborted
    /\ call.op = "drop_current_ply" /\ call.ret = "ok"
    /\ opened # <<>>
    /\ opened[Len(opened)].inserted # <<>>
    /\ current_ply(move_list) = opened[Len(opened)].inserted
    /\ Len(move_list.moves) > move_list.total_count

\* C9: insert, current_ply and drop_current_ply abort when no ply is open, and
\* the MoveList is left as it was (no move stored).
NoOpenPlyAborts ==
    [][ ( /\ ~aborted
          /\ move_list.current_ply = 0
          /\ \/ \E m \in SomeMoves : Insert(m)
             \/ CurrentPly
             \/ DropCurrentPly )
        => ( /\ aborted'
             /\ call'.ret = "panic"
             /\ move_list' = move_list ) ]_vars

\* C9 witness: every ply has been dropped again and an insert has aborted
InsertAbortedAfterDrops ==
    /\ aborted
    /\ call.op = "insert" /\ call.ret = "panic"
    /\ move_list.current_ply = 0
    /\ move_list.total_count = 0
    /\ Len(move_list.moves) > 0

\* C10: the first 128 nested new_ply calls and the first 2048 inserts into open
\* plies all succeed: no call aborts while the list holds fewer than 128 open
\* plies (for new_ply) or fewer than 2048 moves (for insert).
CapacityIsReached ==
    aborted =>
        /\ call.op = "new_ply" => move_list.current_ply + 1 > PLY_FIRST_MOVE_LEN
        /\ call.op = "insert" =>
               move_list.current_ply = 0 \/ move_list.total_count + 1 > MOVES_LEN

(***************************************************************************)
(* Properties of recursive_perft                                           *)
(***************************************************************************)
\* C3: when recursive_perft has returned, the node counter holds the number the
\* perft table gives for the position and the depth it was called with: 20, 400,
\* 8902, 197281 for the starting position at depths 1-4; 48, 2039, 97862 for the
\* second position at depths 1-3; 14, 191, 2812, 43238 for the third at depths 1-4.
PerftCountsMatch ==
    LET table == [ initial |-> <<20, 400, 8902, 197281>>,
                   position_2 |-> <<48, 2039, 97862>>,
                   position_3 |-> <<14, 191, 2812, 43238>> ]
    IN /\ ~aborted
       /\ (stack = <<>> /\ call.op = NoCall.op /\ call.ret = NoCall.ret /\ move_list.ply_first_move # <<>>) =>
              /\ root \in DOMAIN table
              /\ depth \in 1..Len(table[root])
              /\ nodes = table[root][depth]
              /\ position = Position_from_fen(FEN[root])
              /\ move_list.current_ply = 0

\* C3 witness: recursive_perft has returned from the second position at depth 3
\* with 97862 nodes counted
PerftPosition2Depth3 ==
    /\ stack = <<>> /\ ~aborted
    /\ root = "position_2" /\ depth = 3
    /\ nodes = 97862


\* C11: every reachable State is read back from its own FEN (boards, en-passant
\* mask, flags, halfmove), and a canonical FEN with fullmove number 1 (the FEN
\* of the root, and the FEN written for a reachable State) is written back
\* unchanged after parsing
FenRoundTrip ==
    /\ ~State_to_fen_panics(current)
    /\ \E f \in {State_to_fen(current)} : \E S \in {State_from_fen(f)} :
          /\ S.boards = current.boards
          /\ S.en_passant = current.en_passant
          /\ S.flags = current.flags
          /\ S.halfmove = current.halfmove
          /\ State_to_fen(S) = f
    /\ State_to_fen(State_from_fen(FEN[root])) = FEN[root]

\* C11 witness: a State with an en-passant square, reached by a double pawn
\* push, whose FEN names that square and reads back as the same State
FenRoundTripEnPassant ==
    /\ made # <<>> /\ made[Len(made)].code = "DoublePawnPush"
    /\ current.en_passant # EMPTY
    /\ State_from_fen(State_to_fen(current)) = current


\* the name of a square as the specification writes it: the file letter a-h and
\* the rank digit 1-8
SquareName(square) ==
    << <<"a", "b", "c", "d", "e", "f", "g", "h">>[(square % 8) + 1],
       <<"1", "2", "3", "4", "5", "6", "7", "8">>[(square \div 8) + 1] >>

\* C12: each of the 64 squares is written as its file letter and rank digit
\* (12 as "e2") and parsing that string gives the square back; a two-character
\* string that names no square is a parse failure, and no parse aborts
SquareStringRoundTrip ==
    /\ ~aborted
    /\ call.op = "to_string" => call.ret = SquareName(call.square)
    /\ call.op = "try_from" =>
          IF \E square \in Squares : call.str = SquareName(square)
          THEN call.str = SquareName(call.ret)
               /\ (call.square # None => call.ret = call.square)
          ELSE call.ret = None


\* C13: a move string matches a move exactly when its first four characters
\* name the move's from and to squares; a trailing promotion letter does not
\* count, so make_move_sequence finds a move for "a7b8" and for "a7b8Q" alike
MatchIgnoresPromotionLetter ==
    call.op = "make_move_sequence" =>
        LET named(m) == SquareName(m.from) \o SquareName(m.to) = SubSeq(call.string, 1, 4)
        IN /\ (call.found_move # <<>>) <=> (\E m \in Range(call.ply) : named(m))
           /\ call.found_move # <<>> => named(call.found_move[1])

\* C14: white_score of the final position of a rollout is 1.0 when Black is to
\* move and checkmated, 0.0 when White is to move and checkmated, and 0.5 in
\* every other case (no legal move without check, or insufficient material)
WhiteScoreOfFinalPosition ==
    call.op = "rollout" =>
        LET state == call.pos.state.state
            side == state.flags.active_color
            checkmated == /\ AttackedBy(state, KingSquare(state, side), Not(side))
                          /\ rollout_policy(call.pos) = {}
        IN call.ret = (IF checkmated THEN (IF side = "Black" THEN One ELSE 0)
                       ELSE One \div 2)

RookD4FileMoves ==
    { m \in Range(call.ret) : m.from = Square_new(3, 3) /\ file(m.to) = 3 }

\* C20 (as stated): with a rook of the side to move on d4, an enemy piece on d7
\* and a friendly piece on d2, the moves of that rook along the d-file are
\* QuietMove to exactly d5 and d6 and Capture to exactly d7; none targets d1, d3
\* or d8
RookD4MovesAsStated ==
    call.op = "rank_file_moves" =>
        RookD4FileMoves = { Move_new(Square_new(3, 3), Square_new(4, 3), "QuietMove"),
                            Move_new(Square_new(3, 3), Square_new(5, 3), "QuietMove"),
                            Move_new(Square_new(3, 3), Square_new(6, 3), "Capture") }

\* C20 (amended): the moves of that rook along the d-file are QuietMove to
\* exactly d3, d5 and d6 and Capture to exactly d7; none targets d1, d2 or d8
RookD4Moves ==
    call.op = "rank_file_moves" =>
        RookD4FileMoves = { Move_new(Square_new(3, 3), Square_new(2, 3), "QuietMove"),
                            Move_new(Square_new(3, 3), Square_new(4, 3), "QuietMove"),
                            Move_new(Square_new(3, 3), Square_new(5, 3), "QuietMove"),
                            Move_new(Square_new(3, 3), Square_new(6, 3), "Capture") }

\* C20 (witness): the moves of a rook on d4 were written in a position that has
\* an enemy piece behind the one on d7 and a friendly piece behind the one on d2
RookD4Blocked ==
    /\ call.op = "rank_file_moves"
    /\ Move_new(Square_new(3, 3), Square_new(6, 3), "Capture") \in Range(call.ret)
    /\ Square_new(7, 3) \in Occupied(current)
    /\ Square_new(0, 3) \in Occupied(current)

\* C18: the positions at which successive selections of one playout call pick
\* their move never repeat a key of the node table, and so the activations of
\* playout do not nest without end
PlayoutPathIsAcyclic ==
    \A i, j \in 1..Len(stack) :
        (i < j /\ stack[i].pc = "made" /\ stack[j].pc = "made") => stack[i].key # stack[j].key

\* C15: select treats an expired deadline as a normal outcome: whatever the
\* number of playouts before the deadline, none included, it does not abort, it
\* leaves pos as it was at the call and it returns the move of a root out-edge
\* with the greatest visit count (no move when the root has no legal move)
SelectReturnsMostVisited ==
    call.op = "select" =>
        /\ ~aborted
        /\ position = call.entry
        /\ LET edges == engine.nodes[key_of(position)].out_edges
           IN IF legal_moves(position) = <<>> THEN call.ret = <<>>
              ELSE /\ call.ret # <<>>
                   /\ \E i \in 1..Len(edges) :
                         /\ edges[i].action = call.ret[1]
                         /\ \A j \in 1..Len(edges) : edges[j].visits <= edges[i].visits

\* C17: when alpha_beta_search or quiesce returns, by whatever exit path, the
\* position equals the position at its entry and the MoveList has the number of
\* open plies and the total move count it had at its entry
SearchRestoresPositionAndMoveList ==
    \A k \in 1..Len(stack) :
        (stack[k].fn \in {"alpha_beta_search", "quiesce"} /\ stack[k].pc = "return") =>
            /\ position = stack[k].entry
            /\ ply_number(move_list) = stack[k].plies
            /\ move_list.total_count = stack[k].total

\* C21: in the standard starting position is_square_attacked(s, White) is true
\* for every square of ranks 2 and 3 and false for every square of ranks 5 to
\* 8, and is_square_attacked(s, Black) is true for every square of ranks 7 and
\* 6 and false for every square of ranks 4 to 1
StartingPositionAttacks ==
    call.op = "is_square_attacked" =>
        /\ (call.attacking_color = "White" /\ rank(call.square) \in {1, 2}) => call.ret
        /\ (call.attacking_color = "White" /\ rank(call.square) \in 4..7) => ~call.ret
        /\ (call.attacking_color = "Black" /\ rank(call.square) \in {6, 5}) => call.ret
        /\ (call.attacking_color = "Black" /\ rank(call.square) \in 0..3) => ~call.ret

\* C21 (witness): b6, which only the pawns on a7 and c7 reach, was found
\* attacked by Black in the starting position
B6AttackedByBlack ==
    /\ call.op = "is_square_attacked"
    /\ position = Position_from_fen(FEN_initial)
    /\ call.attacking_color = "Black"
    /\ call.square = Square_new(5, 1)
    /\ call.ret

\* the pawns of `color` that have no pawn of their colour on an adjacent file
IsolatedPawnSquares(state, color) ==
    LET pawns == state.boards[color]["Pawn"]
    IN { p \in pawns : \A q \in pawns : file(q) # file(p) - 1 /\ file(q) # file(p) + 1 }

\* C22 (as stated): the isolated-pawn term is 40 times (the number of isolated
\* pawns of the side not to move minus the number of isolated pawns of the side
\* to move), every isolated pawn counted, two on one file included
IsolatedTermCountsPawns ==
    call.op = "isolated_pawn_number" =>
        call.ret = 40 * ( Cardinality(IsolatedPawnSquares(current, Not(current.flags.active_color)))
                          - Cardinality(IsolatedPawnSquares(current, current.flags.active_color)) )

\* C22 (amended): the isolated-pawn term is 40 times (the number of files that
\* hold isolated pawns of the side not to move minus the number of files that
\* hold isolated pawns of the side to move)
IsolatedTermCountsFiles ==
    call.op = "isolated_pawn_number" =>
        LET files(color) == { file(p) : p \in IsolatedPawnSquares(current, color) }
        IN call.ret = 40 * ( Cardinality(files(Not(current.flags.active_color)))
                             - Cardinality(files(current.flags.active_color)) )

\* C22 (witness): the term was computed for a position in which the side to
\* move has two isolated pawns on the a-file and the other side has an isolated
\* pawn, and it came out as zero
IsolatedDoubledPawnsScored ==
    /\ call.op = "isolated_pawn_number"
    /\ current.flags.active_color = "White"
    /\ {Square_new(1, 0), Square_new(2, 0)} \subseteq IsolatedPawnSquares(current, "White")
    /\ Cardinality(IsolatedPawnSquares(current, "White")) = 2
    /\ Cardinality(IsolatedPawnSquares(current, "Black")) = 1
    /\ call.ret = 0

\* C23: when make applies a non-castle move of a rook of the side to move, the
\* castling right of that colour on the side of the board the rook stood on is
\* cleared if the rook left its home square (a-file: queen side, h-file: king
\* side) and every other castling right is unchanged; a rook move from any other
\* square changes no castling right
RookMoveClearsItsHomeRight ==
    [][ (Len(made') = Len(made) + 1 /\ ~aborted') =>
            LET m == made'[Len(made')]
                color == current.flags.active_color
                back == IF color = "White" THEN 0 ELSE 56
            IN find_piece(active_boards(current), m.from) = "Rook" =>
                   \A c \in {"White", "Black"} : \A side \in {"King", "Queen"} :
                       castle_right(position'.state.state.flags, c, side)
                           = ( /\ castle_right(current.flags, c, side)
                               /\ ~( /\ c = color
                                     /\ m.from = back + (IF side = "King" THEN 7 ELSE 0) ) )
      ]_vars

\* the squares of the ray that leaves `from` by steps of (dr, df), nearest first
RaySquares(from, dr, df) ==
    LET on(k) == /\ rank(from) + k * dr \in 0..7
                 /\ file(from) + k * df \in 0..7
        length == Cardinality({ k \in 1..7 : on(k) })
    IN [ k \in 1..length |-> (rank(from) + k * dr) * 8 + file(from) + k * df ]

\* the steps of the rays a piece slides along
RaySteps(piece) ==
    LET straight == { <<0, 1>>, <<1, 0>>, <<0, -1>>, <<-1, 0>> }
        diagonal == { <<1, 1>>, <<1, -1>>, <<-1, -1>>, <<-1, 1>> }
    IN CASE piece = "Rook" -> straight
         [] piece = "Bishop" -> diagonal
         [] piece = "Queen" -> straight \cup diagonal
         [] OTHER -> {}

\* C24: for every slider of the side to move and each of its rays, the moves
\* emitted for it along the ray are a QuietMove to exactly the squares strictly
\* before the nearest occupied square of the ray (all of them when none is
\* occupied) and one Capture onto that square if and only if an enemy piece
\* stands on it, each emitted once; nothing is emitted onto a friendly blocker
\* or beyond a blocker
SliderRayMoves ==
    ~aborted =>
        LET moves == pseudo_legal_moves(current)
            friendly == union(active_boards(current))
            enemy == union(inactive_boards(current))
        IN \A piece \in {"Bishop", "Rook", "Queen"} :
             \A from \in active_boards(current)[piece] :
               \A step \in RaySteps(piece) :
                 LET ray == RaySquares(from, step[1], step[2])
                     blocked == { k \in 1..Len(ray) : ray[k] \in friendly \cup enemy }
                     nearest == IF blocked = {} THEN Len(ray) + 1
                                ELSE CHOOSE k \in blocked : \A l \in blocked : k <= l
                     expected ==
                         { Move_new(from, ray[k], "QuietMove") : k \in 1..(nearest - 1) }
                           \cup (IF nearest <= Len(ray) /\ ray[nearest] \in enemy
                                 THEN { Move_new(from, ray[nearest], "Capture") } ELSE {})
                     emitted == { i \in 1..Len(moves) :
                                    moves[i].from = from /\ moves[i].to \in Range(ray) }
                 IN /\ { moves[i] : i \in emitted } = expected
                    /\ Cardinality(emitted) = Cardinality(expected)

\* C24 (witness): after a2a3 in "r3k2r/p1ppqpb1/bn2pnp1/3PN3/1p2P3/2N2Q1p/PPPBBPPP/R3K2R w KQkq -"
\* the black bishop on a6 got quiet moves to b7, c8, b5, c4 and d3 and a capture
\* on e2, and the black queen on e7, hemmed in by its own men on e8, d7, f7, e6,
\* f6 and b4, got quiet moves to d8, f8, d6 and c5 only
BlackSlidersAfterA3 ==
    /\ root = "position_2"
    /\ made = <<Move_new(Square_new(1, 0), Square_new(2, 0), "QuietMove")>>
    /\ { m \in Range(pseudo_legal_moves(current)) : m.from = Square_new(5, 0) }
         = { Move_new(Square_new(5, 0), Square_new(6, 1), "QuietMove"),
             Move_new(Square_new(5, 0), Square_new(7, 2), "QuietMove"),
             Move_new(Square_new(5, 0), Square_new(4, 1), "QuietMove"),
             Move_new(Square_new(5, 0), Square_new(3, 2), "QuietMove"),
             Move_new(Square_new(5, 0), Square_new(2, 3), "QuietMove"),
             Move_new(Square_new(5, 0), Square_new(1, 4), "Capture") }
    /\ { m \in Range(pseudo_legal_moves(current)) : m.from = Square_new(6, 4) }
         = { Move_new(Square_new(6, 4), Square_new(7, 3), "QuietMove"),
             Move_new(Square_new(6, 4), Square_new(7, 5), "QuietMove"),
             Move_new(Square_new(6, 4), Square_new(5, 3), "QuietMove"),
             Move_new(Square_new(6, 4), Square_new(4, 2), "QuietMove") }

\* how often a move occurs in a frame
Occurrences(ply, m) == Cardinality({ i \in 1..Len(ply) : ply[i] = m })

\* C25: after order_ply(first) the top frame is a permutation of what it was
\* and the lower frames are unchanged; first, when it occurs in the frame, is at
\* index 0; and among the other positions every capture, en-passant or
\* promotion comes before every QuietMove, DoublePawnPush, KingCastle or
\* QueenCastle
OrderPlyPartitions ==
    (call.op = "order_ply" /\ ~aborted) =>
        LET old == current_ply(call.before)
            new == current_ply(move_list)
            seen == Observed(move_list)
            was == Observed(call.before)
            quiet(m) == m.code \in {"QuietMove", "DoublePawnPush", "KingCastle", "QueenCastle"}
            found == call.first # <<>> /\ call.first[1] \in Range(old)
            rest == (IF found THEN 2 ELSE 1)..Len(new)
        IN /\ Len(new) = Len(old)
           /\ \A m \in Range(old) \cup Range(new) : Occurrences(new, m) = Occurrences(old, m)
           /\ seen.ply_number = was.ply_number
           /\ seen.total_count = was.total_count
           /\ seen.sizes = was.sizes
           /\ \A ply \in 1..(ply_number(move_list) - 1) : seen.frames[ply] = was.frames[ply]
           /\ found => new[1] = call.first[1]
           /\ \A i \in rest : \A j \in rest : (i < j /\ quiet(new[i])) => quiet(new[j])

\* C25 (witness): order_ply has reordered a second frame of three moves whose
\* first two were quiet: the move asked for came from the end to the front, and
\* a frame below it holds a move
OrderedSecondFrame ==
    /\ call.op = "order_ply"
    /\ ~aborted
    /\ ply_number(move_list) = 2
    /\ ply_size(move_list, 1) = 1
    /\ current_ply(call.before) = << Move_new(0, 4, "QuietMove"), Move_new(4, 6, "KingCastle"),
                                     Move_new(48, 56, "QueenPromotion") >>
    /\ call.first = << Move_new(4, 6, "KingCastle") >>
    /\ current_ply(move_list) = << Move_new(4, 6, "KingCastle"), Move_new(48, 56, "QueenPromotion"),
                                   Move_new(0, 4, "QuietMove") >>

VisitsOf(m) ==
    LET edges == engine.nodes[key_of(position)].out_edges
    IN edges[CHOOSE i \in 1..Len(edges) : edges[i].action = m].visits

UpdateEvalCounts ==
    [][ /\ \A key \in DOMAIN engine'.nodes :
              engine'.nodes[key].count
                  = 1 + sum_visits(engine'.nodes[key].out_edges, Len(engine'.nodes[key].out_edges))
        /\ (Len(made') = Len(made) - 1 /\ ~aborted') =>
              LET m == made[Len(made)]
                  v == stack[Len(stack)].score
                  old == engine.nodes[key_of(position')]
                  new == engine'.nodes[key_of(position')]
              IN /\ new.count = old.count + 1
                 /\ Len(new.out_edges) = Len(old.out_edges)
                 /\ \E i \in 1..Len(old.out_edges) : old.out_edges[i].action = m
                 /\ \A i \in 1..Len(old.out_edges) :
                       IF old.out_edges[i].action = m
                       THEN new.out_edges[i] = [action |-> m,
                                                visits |-> old.out_edges[i].visits + 1,
                                                eval |-> v]
                       ELSE new.out_edges[i] = old.out_edges[i]
                 /\ DOMAIN engine'.nodes = DOMAIN engine.nodes
                 /\ \A key \in DOMAIN engine.nodes \ {key_of(position')} :
                       engine'.nodes[key] = engine.nodes[key]
      ]_vars

\* C28 (witness): a playout has just returned through a node that an earlier
\* playout reached by another order of moves and updated it: the node has been
\* passed through more often than the edge the playout came by, and it still
\* has count = 1 + the sum of the visits of its out-edges
SharedNodeUpdated ==
    /\ ~aborted
    /\ Len(made) >= 2
    /\ Len(stack) >= 3
    /\ stack[Len(stack)].pc = "return"
    /\ stack[Len(stack) - 1].pc = "made"
    /\ key_of(position) \in DOMAIN engine.nodes
    /\ LET parent == unmake(position, made[Len(made)])
           node == engine.nodes[key_of(position)]
       IN /\ key_of(parent) \in DOMAIN engine.nodes
          /\ LET from == engine.nodes[key_of(parent)]
             IN node.count - 2 > from.out_edges[get_action_edge(from, made[Len(made)])].visits
          /\ node.count >= 3
          /\ node.count = 1 + sum_visits(node.out_edges, Len(node.out_edges))


\* the number of pieces a colour has on the board
PieceCount(state, color) ==
    Cardinality(UNION { state.boards[color][piece] : piece \in PieceTypes })

\* C29: make never creates a piece: at every position reached by legal moves,
\* for every move m that pseudo_legal_moves emits, after make(m) the mover has as
\* many pieces as before and the opponent as many as before, or one less when m
\* is a capture or en passant; and a castle moves a king and a rook that both
\* stood on the board, on the king's square and on the rook's home square
MakeCreatesNoPiece ==
    (~aborted /\ LegalSoFar) =>
        \A m \in Range(pseudo_legal_moves(current)) :
            ~make_panics(position, m) =>
                LET after == make(position, m).state.state
                    mover == current.flags.active_color
                    home == IF mover = "White" THEN 0 ELSE 56
                IN /\ PieceCount(after, mover) = PieceCount(current, mover)
                   /\ PieceCount(after, Not(mover))
                          = PieceCount(current, Not(mover))
                              - (IF is_capture(m.code) THEN 1 ELSE 0)
                   /\ m.code = "KingCastle" =>
                          /\ m.from \in current.boards[mover]["King"]
                          /\ home + 7 \in current.boards[mover]["Rook"]
                   /\ m.code = "QueenCastle" =>
                          /\ m.from \in current.boards[mover]["King"]
                          /\ home \in current.boards[mover]["Rook"]


(***************************************************************************)
(* The search against plain negamax.  Before each search of                *)
(* iterative_deepen the same alpha_beta_search runs on the same position,  *)
(* MoveList and prev_pv with its cutoffs taken out (Plain): the two        *)
(* `if score >= beta { break; }` and the stand-pat return of quiesce.  Its *)
(* score and transposition table are kept in `call`, the state it started  *)
(* from is put back, and the search proper follows                         *)
(***************************************************************************)
\* the plain search is called on the state the next search will start from
PlainSearch ==
    /\ ~aborted
    /\ stack = <<>>
    /\ engine.max_depth <= depth
    /\ engine' = [engine EXCEPT !.prev_pv = engine.pv]
    /\ stack' = << [fn |-> "plain_search", pc |-> "called", entry |-> position,
                    move_list |-> move_list, engine |-> engine],
                   SearchCall("alpha_beta_search", MIN_SCORE, MAX_SCORE, 0, <<>>) >>
    /\ call' = NoCall
    /\ UNCHANGED <<positionVars, move_list, opened, stride, nodes, aborted>>

\* ... and has returned: the state it started from is put back and
\* search(prev_pv) calls alpha_beta_search as in Search
PlainReturn ==
    /\ ~aborted
    /\ Len(stack) = 2
    /\ stack[1].fn = "plain_search"
    /\ top.pc = "return"
    /\ position' = stack[1].entry
    /\ move_list' = stack[1].move_list
    /\ engine' = [stack[1].engine EXCEPT !.prev_pv = stack[1].engine.pv]
    /\ call' = [op |-> "plain_search", ret |-> top.ret, transpos |-> engine.transpos]
    /\ stack' = << [fn |-> "search", pc |-> "called"],
                   [SearchCall("alpha_beta_search", MIN_SCORE, MAX_SCORE, 0, <<>>)
                       EXCEPT !.entry = stack[1].entry] >>
    /\ UNCHANGED <<root, made, depth, opened, stride, nodes, aborted>>

InitPlain == InitSearch

NextPlain ==
    \/ PlainSearch
    \/ PlainReturn
    \/ SearchReturn
    \/ AlphaBetaEntry
    \/ AlphaBetaTail
    \/ SearchLoop
    \/ SearchScore
    \/ AlphaBetaReturn
    \/ QuiesceEntry
    \/ QuiesceReturn

SpecPlain == InitPlain /\ [][NextPlain]_vars

\* C30: when alpha_beta_search, called by search with the window
\* (MIN_SCORE, MAX_SCORE), returns, its score is the score the same search with
\* every beta cutoff taken out returned from the same position, MoveList and
\* prev_pv at the same max_depth
PruningKeepsRootScore ==
    (~aborted /\ Len(stack) = 2 /\ stack[1].fn = "search" /\ top.pc = "return"
        /\ call.op = "plain_search") =>
        top.ret = call.ret

\* C30 (witness): a search has returned the score of the plain search although
\* a cutoff ended the loop of one of its nodes early: the transposition table
\* holds another score for that node than the plain search stored
PrunedSearchAgrees ==
    /\ ~aborted
    /\ Len(stack) = 2 /\ stack[1].fn = "search" /\ top.pc = "return"
    /\ call.op = "plain_search"
    /\ top.ret = call.ret
    /\ \E hash \in DOMAIN engine.transpos \cap DOMAIN call.transpos :
          engine.transpos[hash].score # call.transpos[hash].score
====
